---- MODULE Spec2Model ----
(***************************************************************************)
(* Queue/dispatch core of data-pipeline-python-vm:                         *)
(*   src/src/core/queue.py      QueueManager (routes, connections, lists)  *)
(*   src/src/core/workflow.py   BaseWorkflow.execute (retry engine)        *)
(*   src/src/core/processor.py  WorkflowProcessor (dispatch loop)          *)
(* Every action is the code that runs between two suspension points of the *)
(* asyncio event loop, or a whole call where the callers do not overlap.   *)
(***************************************************************************)
EXTENDS Integers, Sequences, FiniteSets, TLC

\* ------------------------------------------------------------------ bounds
MaxM == 2          \* largest configured max_queue_length explored
MaxDeqLog == 3     \* dequeue calls recorded per list
MaxClock == 2      \* logical clock values 0..MaxClock
MaxRetries == 2    \* largest WorkflowConfig.max_retries explored
MaxCalls == 2      \* execute calls made on the one workflow instance
MaxLoopEnq == 2    \* items producers enqueue while the dispatch loop runs
MaxConns == 3      \* connections the manager opens in the connection specification
MaxMsgs == 2       \* messages received on the WebSocket stream
MaxRegs == 3       \* register_workflow calls in the registry specification

MaxEnq == MaxM + 2 \* enqueue calls in the queue specification (N > M)

\* ------------------------------------------------------------ value spaces
Workflows == {"A", "B"}
Targets == {"t0", "t1"}
Routes == {"default", "high_priority"}
Payloads == {"d1", "d2"}
NoConn == 0
NoneStr == "None"

\* A queue record as built by enqueue; NoneItem stands for Python's None.
NoneItem == [data |-> NoneStr, timestamp |-> -1, queue |-> NoneStr]

\* json.dumps: a JSON object keeps its content except that a non-string key
\* ("ik": a payload with an integer key) is written as a string key ("sk").
JsonData(d) == IF d = "ik" THEN "sk" ELSE d

\* Mutation of JsonDumps: the payload is not written.
JsonDumpsWithoutData(item) == [json |-> [item EXCEPT !.data = NoneStr]]

JsonDumps(item) == [json |-> [item EXCEPT !.data = JsonData(@)]]
JsonLoads(s) == s.json

\* ------------------------------------------------- Redis list primitives
RPush(list, x) == Append(list, x)
LLen(list) == Len(list)

\* LTRIM key start stop, 0-based inclusive, negative indices from the tail.
LTrim(list, start, stop) ==
    LET n == Len(list)
        s0 == IF start < 0 THEN n + start ELSE start
        e0 == IF stop < 0 THEN n + stop ELSE stop
        s == IF s0 < 0 THEN 0 ELSE s0
        e == IF e0 >= n THEN n - 1 ELSE e0
    IN IF s > e \/ s >= n THEN << >> ELSE SubSeq(list, s + 1, e + 1)

\* Mutation of LPopValue: the pop reports the tail element.
LPopValueTail(list) == IF list = << >> THEN NoneItem ELSE JsonLoads(list[Len(list)])

LPopValue(list) == IF list = << >> THEN NoneItem ELSE JsonLoads(Head(list))
\* Mutation of LPopRest: the pop leaves the head in the list.
LPopRestKeepsHead(list) == list

LPopRest(list) == IF list = << >> THEN << >> ELSE Tail(list)

VARIABLES
    \* QueueManager
    redis_configs,      \* route name -> connection target
    redis_connections,  \* route name -> handle (NoConn = None)
    max_queue_length,
    store,              \* <<target, workflow>> -> list of serialized records
    nextConn,           \* id of the next connection the manager opens
    now,                \* logical clock (datetime.utcnow / datetime.now)
    ret,                \* outcome of the last QueueManager call
    enqLog,             \* history: records appended to each list
    deqLog,             \* history: results of the dequeues since the last append
    mixed,              \* history: a dequeue preceded an append on the list
    qcalls,             \* history: flips at every logged call of the manager
    closed,             \* history: the handles on which close() was called
    used,               \* history: the handle of the last call's store operations
    producers,          \* producer task -> where its enqueue call is suspended
    \* one BaseWorkflow instance and the execute calls made on it
    max_retries,        \* config.max_retries
    retry_count,
    start_time,
    call,               \* caller -> the state of its execute call
    ncalls,             \* history: execute calls made so far
    validation,         \* caller -> what validate returns for the call's data,
                        \* and whether execute consulted it
    calledAt,           \* history: caller -> clock value at its execute call
    invocations,        \* history: the number of process invocations so far
    \* WorkflowProcessor
    workflows,          \* the registry, in insertion order: <<[name, impl], ...>>
    running,            \* self._running
    pc,                 \* where start() is suspended: idle, dequeue, size,
                        \* execute, sleep; done (returned), raised
    idx,                \* position of the for loop in the registry
    loop_data,          \* data: the record the loop dequeued and is handling
    workflow_executions, \* Counter: <<workflow name, status>> -> count
    queue_size,         \* Gauge: workflow name -> last value set
    lastStep,           \* history: the last thing the processor did
    pass,               \* history of the current pass
    afterStop,          \* history since stop() was called on the running loop
    regLog,             \* history: the classes passed to register_workflow
    stream,             \* the WebSocket ingestion handler and its connection
    webhooks,           \* webhook request -> its handler, response and queued task
    teardown,           \* the task that calls disconnect: where it is suspended
    instances,          \* example workflow instance -> its fields and where it is suspended
    tasks               \* task of the event loop -> running, cancelling, cancelled

mvars == <<redis_configs, redis_connections, max_queue_length, store,
           nextConn, ret>>
hvars == <<enqLog, deqLog, mixed, qcalls>>
cvars == <<closed, used>>
qvars == <<mvars, hvars, cvars, producers>>
xvars == <<validation, calledAt, invocations>>
evars == <<max_retries, retry_count, start_time, call, ncalls, xvars>>

lvars == <<workflows, running, pc, idx, loop_data, workflow_executions, queue_size,
           lastStep, pass, afterStop, regLog>>

avars == <<stream, webhooks, teardown>>
wvars == <<instances, tasks>>
vars == <<qvars, avars, wvars, now, evars, lvars>>

Lists == Targets \X Workflows
\* Mutation of queue_key: the list is chosen by the route name.
queue_key_by_route(route, workflow_name) ==
    <<IF route = "default" THEN "t0" ELSE "t1", workflow_name>>

\* f"workflow:{workflow_name}:queue" on the connection of the route: the list
\* is determined by the route's target and the workflow name.
queue_key(route, workflow_name) == <<redis_configs[route], workflow_name>>

\* ------------------------------------------------------------ QueueManager
Item(data, queue_name) == [data |-> data, timestamp |-> now, queue |-> queue_name]

Ret(op, w, r, raised, item, n) ==
    [op |-> op, wf |-> w, route |-> r, raised |-> raised, item |-> item, n |-> n]

\* Mutation of connect_raises: the route table is not consulted, and the
\* lookup of the handle fails instead.
connect_raises_unchecked(queue_name, fault) ==
    IF queue_name \notin DOMAIN redis_configs THEN "KeyError"
    ELSE IF redis_connections[queue_name] = NoConn /\ fault = "connect"
         THEN "ConnectionError"
         ELSE ""

\* connect(queue_name): what it raises ("" when it returns) and the handles
\* afterwards.  fault = "connect" makes aioredis.from_url fail when it is called.
connect_raises(queue_name, fault) ==
    IF queue_name \notin DOMAIN redis_configs THEN "ValueError"
    ELSE IF redis_connections[queue_name] = NoConn /\ fault = "connect"
         THEN "ConnectionError"
         ELSE ""

\* Mutation of connect_opens: the existing handle is not looked at.
connect_opens_always(queue_name, fault) ==
    connect_raises(queue_name, fault) = ""

\* if not self.redis_connections[queue_name]: open one.
connect_opens(queue_name, fault) ==
    /\ connect_raises(queue_name, fault) = ""
    /\ redis_connections[queue_name] = NoConn

connect_handles(queue_name, fault) ==
    IF connect_opens(queue_name, fault)
    THEN [redis_connections EXCEPT ![queue_name] = nextConn]
    ELSE redis_connections

connect_next(queue_name, fault) ==
    IF connect_opens(queue_name, fault) THEN nextConn + 1 ELSE nextConn

\* Mutation of enqueue_trim: the trim keeps the head of the list.
enqueue_trim_keeps_head(list) == LTrim(list, 0, max_queue_length - 1)

\* The list enqueue leaves behind: RPUSH, then LTRIM key -max_queue_length -1.
enqueue_trim(list) == LTrim(list, -max_queue_length, -1)

enqueue_list(list, item, fault) ==
    IF fault = "rpush" THEN list
    ELSE IF fault = "ltrim" THEN RPush(list, JsonDumps(item))
    ELSE enqueue_trim(RPush(list, JsonDumps(item)))

\* enqueue(workflow_name, data, queue_name) as one call; fault names the store
\* operation that fails during the call ("none": the store answers every one).
enqueue(workflow_name, data, queue_name, fault) ==
    LET raised == connect_raises(queue_name, fault) IN
    IF raised # ""
    THEN /\ ret' = Ret("enqueue", workflow_name, queue_name, raised, NoneItem, 0)
         /\ UNCHANGED <<redis_configs, redis_connections, max_queue_length, store,
                        nextConn>>
    ELSE LET key == queue_key(queue_name, workflow_name)
             item == Item(data, queue_name)
         IN /\ redis_connections' = connect_handles(queue_name, fault)
            /\ nextConn' = connect_next(queue_name, fault)
            /\ store' = [store EXCEPT ![key] = enqueue_list(@, item, fault)]
            /\ ret' = IF fault \in {"rpush", "ltrim", "llen"}
                       THEN Ret("enqueue", workflow_name, queue_name, "ConnectionError",
                                NoneItem, 0)
                       ELSE Ret("enqueue", workflow_name, queue_name, "", item,
                                LLen(store'[key]))
            /\ UNCHANGED <<redis_configs, max_queue_length>>

\* dequeue(workflow_name, queue_name): LPOP and json.loads, None when empty.
dequeue(workflow_name, queue_name, fault) ==
    LET raised == connect_raises(queue_name, fault) IN
    IF raised # ""
    THEN /\ ret' = Ret("dequeue", workflow_name, queue_name, raised, NoneItem, 0)
         /\ UNCHANGED <<redis_configs, redis_connections, max_queue_length, store,
                        nextConn>>
    ELSE LET key == queue_key(queue_name, workflow_name) IN
         /\ redis_connections' = connect_handles(queue_name, fault)
         /\ nextConn' = connect_next(queue_name, fault)
         /\ IF fault = "lpop"
            THEN /\ ret' = Ret("dequeue", workflow_name, queue_name, "ConnectionError",
                               NoneItem, 0)
                 /\ UNCHANGED store
            ELSE /\ store' = [store EXCEPT ![key] = LPopRest(@)]
                 /\ ret' = Ret("dequeue", workflow_name, queue_name, "",
                               LPopValue(store[key]), 0)
         /\ UNCHANGED <<redis_configs, max_queue_length>>

\* History of a list: the records appended to it, and what the dequeues since
\* the last append returned.
log_enqueue(workflow_name, data, queue_name, fault) ==
    IF ret'.raised = "" \/ (ret'.raised = "ConnectionError" /\ fault \in {"ltrim", "llen"})
    THEN LET key == queue_key(queue_name, workflow_name) IN
         /\ enqLog' = [enqLog EXCEPT ![key] = Append(@, Item(data, queue_name))]
         /\ mixed' = IF deqLog[key] # << >> THEN [mixed EXCEPT ![key] = TRUE] ELSE mixed
         /\ deqLog' = [deqLog EXCEPT ![key] = << >>]
         /\ qcalls' = 1 - qcalls
    ELSE qcalls' = 1 - qcalls /\ UNCHANGED <<enqLog, deqLog, mixed>>

log_dequeue ==
    /\ qcalls' = 1 - qcalls
    /\ IF ret'.raised # ""
       THEN UNCHANGED <<enqLog, deqLog, mixed>>
       ELSE LET key == <<redis_configs[ret'.route], ret'.wf>> IN
            /\ deqLog' = [deqLog EXCEPT ![key] = Append(@, ret'.item)]
            /\ UNCHANGED <<enqLog, mixed>>

\* get_queue_size(workflow_name, queue_name): LLEN of the list.
get_queue_size(workflow_name, queue_name, fault) ==
    LET raised == connect_raises(queue_name, fault) IN
    IF raised # ""
    THEN /\ ret' = Ret("get_queue_size", workflow_name, queue_name, raised, NoneItem, 0)
         /\ UNCHANGED <<redis_configs, redis_connections, max_queue_length, store,
                        nextConn>>
    ELSE LET key == queue_key(queue_name, workflow_name) IN
         /\ redis_connections' = connect_handles(queue_name, fault)
         /\ nextConn' = connect_next(queue_name, fault)
         /\ ret' = IF fault = "llen"
                    THEN Ret("get_queue_size", workflow_name, queue_name,
                             "ConnectionError", NoneItem, 0)
                    ELSE Ret("get_queue_size", workflow_name, queue_name, "",
                             NoneItem, LLen(store[key]))
         /\ UNCHANGED <<redis_configs, max_queue_length, store>>

\* enqueue step by step, for tasks whose calls overlap: the code between two
\* awaits runs without interruption, and each store command takes effect at
\* one instant during its await.  The store answers every command.
\* enqueue is called on a configured route: with a handle in the table connect
\* returns at once and the record is built; without one the task awaits
\* aioredis.from_url.
enqueue_call(p, workflow_name, data, queue_name) ==
    /\ producers[p].pc = "idle"
    /\ queue_name \in DOMAIN redis_configs
    /\ producers' = [producers EXCEPT ![p] =
           IF redis_connections[queue_name] = NoConn
           THEN [pc |-> "from_url", item |-> Item(data, queue_name),
                 appended |-> FALSE, trimmed |-> FALSE]
           ELSE [pc |-> "rpush", item |-> Item(data, queue_name),
                 appended |-> FALSE, trimmed |-> FALSE]]
    /\ UNCHANGED <<mvars>>

\* from_url returns: the new connection is stored as the route's handle and
\* the record is built with the time of that moment.
enqueue_connected(p, queue_name) ==
    /\ producers[p].pc = "from_url"
    /\ redis_connections' = [redis_connections EXCEPT ![queue_name] = nextConn]
    /\ nextConn' = nextConn + 1
    /\ producers' = [producers EXCEPT ![p].pc = "rpush", ![p].item.timestamp = now]
    /\ UNCHANGED <<redis_configs, max_queue_length, store, ret>>

\* Mutation of after_rpush: the trim is left out.
after_rpush_skips_trim == "llen"

\* The await that follows rpush in enqueue.
after_rpush == "ltrim"

\* The next store call of a resumed enqueue reads the route's handle again:
\* self.redis_connections[queue_name].ltrim(...) / .llen(...). On None the
\* attribute access raises AttributeError and the call ends there.
next_store_call(p, workflow_name, queue_name, next) ==
    IF redis_connections[queue_name] = NoConn
    THEN /\ producers' = [producers EXCEPT ![p].pc = "idle",
                                           ![p].appended = TRUE,
                                           ![p].trimmed = (producers[p].pc = "ltrim")]
         /\ ret' = Ret("enqueue", workflow_name, queue_name, "AttributeError",
                       NoneItem, 0)
    ELSE /\ producers' = [producers EXCEPT ![p].pc = next,
                                           ![p].appended = TRUE,
                                           ![p].trimmed = (producers[p].pc = "ltrim")]
         /\ ret' = ret

\* RPUSH takes effect; the task goes on to its next store call.
enqueue_rpush(p, workflow_name, queue_name) ==
    /\ producers[p].pc = "rpush"
    /\ store' = [store EXCEPT ![queue_key(queue_name, workflow_name)] =
                     RPush(@, JsonDumps(producers[p].item))]
    /\ next_store_call(p, workflow_name, queue_name, after_rpush)
    /\ UNCHANGED <<redis_configs, redis_connections, max_queue_length, nextConn>>

\* LTRIM takes effect; the task goes on to LLEN.
enqueue_ltrim(p, workflow_name, queue_name) ==
    /\ producers[p].pc = "ltrim"
    /\ store' = [store EXCEPT ![queue_key(queue_name, workflow_name)] = enqueue_trim(@)]
    /\ next_store_call(p, workflow_name, queue_name, "llen")
    /\ UNCHANGED <<redis_configs, redis_connections, max_queue_length, nextConn>>

\* LLEN answers, item_enqueued is logged and enqueue returns True.
enqueue_llen(p, workflow_name, queue_name) ==
    /\ producers[p].pc = "llen"
    /\ ret' = Ret("enqueue", workflow_name, queue_name, "", producers[p].item,
                  LLen(store[queue_key(queue_name, workflow_name)]))
    /\ producers' = [producers EXCEPT ![p].pc = "idle"]
    /\ UNCHANGED <<redis_configs, redis_connections, max_queue_length, store, nextConn>>

\* connect(queue_name) called by the owner.
connect(queue_name, fault) ==
    /\ ret' = Ret("connect", NoneStr, queue_name, connect_raises(queue_name, fault),
                  NoneItem, 0)
    /\ IF connect_raises(queue_name, fault) # ""
       THEN UNCHANGED <<redis_connections, nextConn>>
       ELSE /\ redis_connections' = connect_handles(queue_name, fault)
            /\ nextConn' = connect_next(queue_name, fault)
    /\ UNCHANGED <<redis_configs, max_queue_length, store>>

\* disconnect(queue_name) reads self.redis_connections[queue_name] first.
disconnect_raises(queue_name) ==
    IF queue_name \notin DOMAIN redis_connections THEN "KeyError" ELSE ""

\* Mutation of disconnect_closes: close() is called on whatever the table holds.
disconnect_closes_unguarded(queue_name) == queue_name \in DOMAIN redis_connections

\* if self.redis_connections[queue_name]: close it.
disconnect_closes(queue_name) ==
    /\ queue_name \in DOMAIN redis_connections
    /\ redis_connections[queue_name] # NoConn

\* Mutation of disconnect_handle: the closed handle stays in the table.
disconnect_handle_kept(handle) == handle

\* self.redis_connections[queue_name] = None
disconnect_handle(handle) == NoConn

\* What a disconnect of the route raises: None has no close().
disconnect_outcome(queue_name) ==
    IF disconnect_raises(queue_name) # "" THEN disconnect_raises(queue_name)
    ELSE IF disconnect_closes(queue_name) /\ redis_connections[queue_name] = NoConn
         THEN "AttributeError"
         ELSE ""

\* Mutation of disconnect_table: every route's handle is cleared.
disconnect_table_clears_all(queue_name) == [r \in DOMAIN redis_connections |-> NoConn]

\* The handle table after disconnect(queue_name) closed the route's connection.
disconnect_table(queue_name) ==
    [redis_connections EXCEPT ![queue_name] = disconnect_handle(@)]

\* disconnect(queue_name); close() completes.
disconnect(queue_name) ==
    /\ ret' = Ret("disconnect", NoneStr, queue_name, disconnect_outcome(queue_name),
                  NoneItem, 0)
    /\ redis_connections' =
           IF disconnect_outcome(queue_name) = "" /\ disconnect_closes(queue_name)
           THEN disconnect_table(queue_name)
           ELSE redis_connections
    /\ UNCHANGED <<redis_configs, max_queue_length, store, nextConn>>

\* disconnect(queue_name) as a task that other tasks interleave with: pc is
\* "idle", or "close" while it awaits close() of the route's connection.
NoTeardown == [pc |-> "idle", route |-> NoneStr]

\* The call finds a handle and awaits its close(), or finds none and returns.
disconnect_call(queue_name) ==
    /\ teardown.pc = "idle"
    /\ queue_name \in DOMAIN redis_connections
    /\ IF disconnect_closes(queue_name)
       THEN /\ teardown' = [pc |-> "close", route |-> queue_name]
            /\ ret' = ret
       ELSE /\ teardown' = NoTeardown
            /\ ret' = Ret("disconnect", NoneStr, queue_name, "", NoneItem, 0)
    /\ UNCHANGED <<redis_configs, redis_connections, max_queue_length, store, nextConn>>

\* close() returns: the handle is set to None and disconnect returns.
disconnect_closed ==
    /\ teardown.pc = "close"
    /\ redis_connections' =
           [redis_connections EXCEPT ![teardown.route] = disconnect_handle(@)]
    /\ teardown' = NoTeardown
    /\ ret' = Ret("disconnect", NoneStr, teardown.route, "", NoneItem, 0)
    /\ UNCHANGED <<redis_configs, max_queue_length, store, nextConn>>

\* disconnect_all(): disconnect of every route of the table, in the table's
\* order; the first one that raises ends the call.
disconnect_all_raises ==
    IF \E r \in DOMAIN redis_connections : disconnect_outcome(r) # ""
    THEN "AttributeError" ELSE ""

disconnect_all ==
    /\ ret' = Ret("disconnect_all", NoneStr, NoneStr, disconnect_all_raises, NoneItem, 0)
    /\ redis_connections' =
           IF disconnect_all_raises # "" THEN redis_connections
           ELSE [r \in DOMAIN redis_connections |->
                    IF disconnect_closes(r)
                    THEN disconnect_handle(redis_connections[r])
                    ELSE redis_connections[r]]
    /\ UNCHANGED <<redis_configs, max_queue_length, store, nextConn>>

\* get_all_queue_sizes(workflow_name): get_queue_size for every route of the
\* route table, in the table's order; the first call that raises ends it.
RouteOrder == <<"default", "high_priority">>
ConfiguredOrder == SelectSeq(RouteOrder, LAMBDA r : r \in DOMAIN redis_configs)
RoutePosition(r) == CHOOSE i \in 1..Len(ConfiguredOrder) : ConfiguredOrder[i] = r

\* The routes get_queue_size is called for: all of them, or those up to the
\* one at which the store fails.
all_sizes_visited(failAt) ==
    IF failAt \notin DOMAIN redis_configs THEN DOMAIN redis_configs
    ELSE {r \in DOMAIN redis_configs : RoutePosition(r) <= RoutePosition(failAt)}

\* What the call raises: the connection cannot be opened, or LLEN fails.
all_sizes_raises(failAt, fault) ==
    IF failAt \notin DOMAIN redis_configs \/ fault = "none" THEN ""
    ELSE IF fault = "connect" /\ redis_connections[failAt] # NoConn THEN ""
    ELSE "ConnectionError"

\* The routes whose connection the call opens.
all_sizes_opened(failAt, fault) ==
    {r \in all_sizes_visited(failAt) :
        /\ redis_connections[r] = NoConn
        /\ ~(r = failAt /\ fault = "connect")}

\* Mutation of all_sizes_route: every entry is read from the default route.
all_sizes_route_default(r) == "default"

\* sizes[queue_name] = await self.get_queue_size(workflow_name, queue_name)
all_sizes_route(r) == r

all_sizes(workflow_name) ==
    [r \in DOMAIN redis_configs |->
        LLen(store[queue_key(all_sizes_route(r), workflow_name)])]

get_all_queue_sizes(workflow_name, failAt, fault) ==
    LET opened == all_sizes_opened(failAt, fault)
        before(r) == Cardinality({o \in opened : RoutePosition(o) < RoutePosition(r)})
    IN /\ redis_connections' =
              [r \in DOMAIN redis_connections |->
                  IF r \in opened THEN nextConn + before(r) ELSE redis_connections[r]]
       /\ nextConn' = nextConn + Cardinality(opened)
       /\ ret' = [op |-> "get_all_queue_sizes", wf |-> workflow_name, route |-> NoneStr,
                   raised |-> all_sizes_raises(failAt, fault), item |-> NoneItem,
                   n |-> 0,
                   sizes |-> IF all_sizes_raises(failAt, fault) = ""
                             THEN all_sizes(workflow_name)
                             ELSE [r \in {} |-> 0]]
       /\ UNCHANGED <<redis_configs, max_queue_length, store>>

\* The clock advances between calls.
Tick ==
    /\ now < MaxClock
    /\ now' = now + 1
    /\ UNCHANGED <<qvars, avars, wvars, evars, lvars>>

\* Tasks that call enqueue concurrently; a task is suspended at the await of
\* from_url, rpush, ltrim or llen, or is not in a call ("idle").
Producers == {"p1", "p2", "p3"}
RaceTasks == {"p1", "p2"}          \* the tasks of the specifications with a consumer or a teardown
IdleProducer == [pc |-> "idle", item |-> NoneItem, appended |-> FALSE, trimmed |-> FALSE]

\* QueueManager.__init__: no connection is open, the bound comes from the
\* configuration; the backing lists start empty.
QueueInit(configs, bound) ==
    /\ redis_configs = configs
    /\ redis_connections = [r \in DOMAIN configs |-> NoConn]
    /\ max_queue_length = bound
    /\ store = [l \in Lists |-> << >>]
    /\ nextConn = 1
    /\ ret = Ret("init", NoneStr, NoneStr, "", NoneItem, 0)
    /\ qcalls = 0
    /\ enqLog = [l \in Lists |-> << >>]
    /\ deqLog = [l \in Lists |-> << >>]
    /\ mixed = [l \in Lists |-> FALSE]
    /\ closed = {}
    /\ used = NoConn
    /\ producers = [p \in Producers |-> IdleProducer]

\* ----------------------------------------------------- BaseWorkflow.execute
Callers == {"task1", "task2"}       \* tasks that call execute on the instance
ProcessResults == {"r1", "r2"}      \* maps returned by process
Errors == {"e1", "e2"}              \* str(e) of the exceptions process raises
AlwaysFails == MaxRetries + 1       \* a plan no single call can outlast

WorkflowResult(success, data, error, execution_time) ==
    [success |-> success, data |-> data, error |-> error,
     execution_time |-> execution_time]

NoResult == WorkflowResult(FALSE, NoneStr, NoneStr, -1)

IdleCall ==
    [pc |-> "idle", no |-> 0, plan |-> 0, attempts |-> 0, fails |-> 0, depth |-> 0,
     result |-> NoResult, nresults |-> 0, rc0 |-> 0, overlap |-> FALSE,
     lastErr |-> NoneStr]

Active(c) == call[c].pc = "process"

\* validate(data): True in BaseWorkflow; a subclass may return False.
NotValidated(valid) == [valid |-> valid, consulted |-> FALSE]

\* execute goes from the workflow_started log straight to the try block that
\* awaits process: it contains no call of self.validate.
execute_validates == FALSE

\* BaseWorkflow.__init__: retry_count = 0, start_time = datetime.now().
WorkflowInit(mr) ==
    /\ max_retries = mr
    /\ retry_count = 0
    /\ start_time = now
    /\ call = [c \in Callers |-> IdleCall]
    /\ ncalls = 0
    /\ validation = [c \in Callers |-> NotValidated(TRUE)]
    /\ calledAt = [c \in Callers |-> 0]
    /\ invocations = 0

\* Mutation of may_retry: the comparison is off by one.
may_retry_off_by_one == retry_count <= max_retries

\* if self.retry_count < self.config.max_retries
may_retry == retry_count < max_retries

\* Mutation of retry_increment: the counter is not advanced.
retry_increment_forgotten == retry_count

\* self.retry_count += 1
retry_increment == retry_count + 1

\* Mutation of failure_result: the failed result carries no error message.
failure_result_without_error(e) == WorkflowResult(FALSE, NoneStr, NoneStr, now - start_time)

\* WorkflowResult(success=False, error=str(e), execution_time=execution_time)
failure_result(e) == WorkflowResult(FALSE, NoneStr, e, now - start_time)

\* WorkflowResult(success=True, data=result, execution_time=execution_time)
success_result(d) == WorkflowResult(TRUE, d, NoneStr, now - start_time)

\* Mutation of exhausted_outcome: the last failure is re-raised to the caller.
exhausted_outcome_reraises == "raised"

\* With the retries used up the except block returns the failed result.
exhausted_outcome == "returned"

\* A caller invokes execute(data): the first process attempt starts.  plan is
\* the behaviour of the process step during this call: it raises on its first
\* plan attempts and returns after that.
execute(c, plan) ==
    /\ call[c].pc # "process"
    /\ ncalls < MaxCalls
    /\ ncalls' = ncalls + 1
    /\ call' = [o \in Callers |->
                  IF o = c
                  THEN [IdleCall EXCEPT !.pc = "process", !.no = ncalls + 1,
                                        !.plan = plan,
                                        !.attempts = 1, !.depth = 1,
                                        !.rc0 = retry_count,
                                        !.overlap = \E x \in Callers \ {c} : Active(x)]
                  ELSE IF Active(o) THEN [call[o] EXCEPT !.overlap = TRUE]
                  ELSE call[o]]
    /\ UNCHANGED <<max_retries, retry_count, start_time>>

\* await self.process(data) returns d: the try block builds the result, and
\* every frame of the recursion returns it unchanged.
process_returns(c, d) ==
    /\ Active(c)
    /\ call[c].fails >= call[c].plan
    /\ call' = [call EXCEPT ![c].pc = "returned",
                            ![c].result = success_result(d),
                            ![c].nresults = @ + 1,
                            ![c].depth = 0]
    /\ UNCHANGED <<max_retries, retry_count, start_time, ncalls>>

\* await self.process(data) raises e: the except block retries by calling
\* execute again (which starts the next attempt) or returns the failed result.
process_raises(c, e) ==
    /\ Active(c)
    /\ call[c].fails < call[c].plan
    /\ IF may_retry
       THEN /\ retry_count' = retry_increment
            /\ call' = [call EXCEPT ![c].fails = @ + 1,
                                    ![c].lastErr = e,
                                    ![c].attempts = @ + 1,
                                    ![c].depth = @ + 1]
       ELSE /\ retry_count' = retry_count
            /\ call' = [call EXCEPT ![c].fails = @ + 1,
                                    ![c].lastErr = e,
                                    ![c].pc = exhausted_outcome,
                                    ![c].result =
                                        IF exhausted_outcome = "returned"
                                        THEN failure_result(e) ELSE NoResult,
                                    ![c].nresults =
                                        IF exhausted_outcome = "returned"
                                        THEN @ + 1 ELSE @,
                                    ![c].depth = 0]
    /\ UNCHANGED <<max_retries, start_time, ncalls>>

\* -------------------------------------------------------- WorkflowProcessor
\* What a registered class does when the loop calls workflow_class(data) and
\* then workflow.execute() with no argument:
\*   "base_init"     inherits BaseWorkflow.__init__, which reads config.name of
\*                   the dequeued dict: the construction raises AttributeError;
\*   "base_execute"  has its own constructor but an execute(self, data): the
\*                   call without data raises TypeError;
\*   "own"           has its own constructor and an execute() that runs.
Impls == {"base_init", "base_execute", "own"}
Classes == [name : Workflows, impl : Impls]
Statuses == {"success", "failure"}

Names(reg) == [i \in 1..Len(reg) |-> reg[i].name]
HasName(reg, n) == \E i \in 1..Len(reg) : reg[i].name = n

Step(kind, wf) == [kind |-> kind, wf |-> wf]

NewPass == [visited |-> << >>,
            popped |-> [w \in Workflows |-> 0],
            held |-> {w \in Workflows : store[<<redis_configs["default"], w>>] # << >>},
            deqRaised |-> FALSE,
            failed |-> [w \in Workflows |-> NoneStr]]

NotStopped == [called |-> FALSE, at |-> NoneStr, sleeps |-> 0, passes |-> 0,
               finished |-> 0, early |-> FALSE]

\* WorkflowProcessor.__init__
ProcessorInit ==
    /\ workflows = << >>
    /\ running = FALSE
    /\ pc = "idle"
    /\ idx = 0
    /\ loop_data = NoneItem
    /\ workflow_executions = [k \in Workflows \X Statuses |-> 0]
    /\ queue_size = [w \in Workflows |-> 0]
    /\ lastStep = Step("init", NoneStr)
    /\ pass = [visited |-> << >>, popped |-> [w \in Workflows |-> 0],
               held |-> {}, deqRaised |-> FALSE,
               failed |-> [w \in Workflows |-> NoneStr]]
    /\ afterStop = NotStopped
    /\ regLog = << >>

\* Mutation of registered: a name registered again moves to the end.
registered_moves_to_end(reg, cls) ==
    Append(SelectSeq(reg, LAMBDA c : c.name # cls.name), cls)

\* register_workflow(workflow_class): self.workflows[name] = workflow_class.
\* A dict keeps the position of a key that is assigned again.
registered(reg, cls) ==
    IF HasName(reg, cls.name)
    THEN [i \in 1..Len(reg) |-> IF reg[i].name = cls.name THEN cls ELSE reg[i]]
    ELSE Append(reg, cls)

\* The owner registers the classes during setup, before start().
register_workflow(cls) ==
    /\ pc = "idle"
    /\ workflows' = registered(workflows, cls)
    /\ lastStep' = Step("register", cls.name)
    /\ UNCHANGED <<running, pc, idx, loop_data, workflow_executions, queue_size>>

\* Mutation of loop_continues: the while loop does not read the flag.
loop_continues_ignores_flag == TRUE

\* while self._running
loop_continues == running

\* Mutation of caught: a failing queue-size query is outside the try block.
caught_except_size(kind) == kind # "size_raise"

\* try ... except Exception around the body of the for loop.
caught(kind) == kind \in {"dequeue_raise", "size_raise", "construct_raise", "execute_raise"}

\* Mutation of next_workflow: the for loop does not advance.
next_workflow_stays ==
    IF idx < Len(workflows)
    THEN pc' = "dequeue" /\ idx' = idx
    ELSE pc' = "sleep" /\ idx' = 0

\* The for loop moves on: the next registered workflow, or asyncio.sleep(1).
next_workflow ==
    IF idx < Len(workflows)
    THEN pc' = "dequeue" /\ idx' = idx + 1
    ELSE pc' = "sleep" /\ idx' = 0

\* The except block logs processor_error and the for loop moves on; an
\* exception that is not caught ends start().
\* Mutation of after_caught: a caught exception ends the pass.
after_caught_ends_pass == pc' = "sleep" /\ idx' = 0

\* The except block is inside the for loop: the loop goes on with the next
\* registered workflow.
after_caught == next_workflow

on_error(kind) ==
    IF caught(kind) THEN after_caught ELSE pc' = "raised" /\ idx' = idx

\* Mutation of start: the flag is left as an earlier stop() set it.
start_keeps_flag ==
    /\ pc = "idle"
    /\ running' = (running \/ lastStep.kind # "stop")
    /\ lastStep' = Step("start", NoneStr)
    /\ pc' = IF Len(workflows) > 0 THEN "dequeue" ELSE "sleep"
    /\ idx' = IF Len(workflows) > 0 THEN 1 ELSE 0
    /\ UNCHANGED <<workflows, loop_data, workflow_executions, queue_size>>

\* start(): self._running = True, then the first evaluation of the while.
start ==
    /\ pc = "idle"
    /\ running' = TRUE
    /\ lastStep' = Step("start", NoneStr)
    /\ pc' = IF Len(workflows) > 0 THEN "dequeue" ELSE "sleep"
    /\ idx' = IF Len(workflows) > 0 THEN 1 ELSE 0
    /\ UNCHANGED <<workflows, loop_data, workflow_executions, queue_size>>

\* stop(): self._running = False; called by the owner at any time.
stop ==
    /\ running' = FALSE
    /\ lastStep' = Step("stop", NoneStr)
    /\ UNCHANGED <<workflows, pc, idx, loop_data, workflow_executions, queue_size>>

\* Mutation of loop_route: the loop polls the high-priority route.
loop_route_high_priority == "high_priority"

\* dequeue(workflow_name) and get_queue_size(workflow_name) are called without
\* a queue_name, which defaults to "default".
loop_route == "default"

\* data = await self.queue_manager.dequeue(workflow_name) completes.
loop_dequeue(fault) ==
    /\ pc = "dequeue"
    /\ dequeue(workflows[idx].name, loop_route, fault)
    /\ LET name == workflows[idx].name IN
       IF ret'.raised # ""
          THEN /\ lastStep' = Step("dequeue_raise", name)
               /\ on_error("dequeue_raise")
               /\ loop_data' = loop_data
          ELSE IF ret'.item = NoneItem
          THEN /\ lastStep' = Step("dequeue_empty", name)
               /\ next_workflow
               /\ loop_data' = loop_data
          ELSE /\ lastStep' = Step("dequeued", name)
               /\ pc' = "size"
               /\ idx' = idx
               /\ loop_data' = ret'.item
    /\ UNCHANGED <<workflows, running, workflow_executions, queue_size>>

\* await self.queue_manager.get_queue_size(workflow_name) completes; the gauge
\* is set, the instance is constructed and execute() is called.
loop_size(fault) ==
    /\ pc = "size"
    /\ get_queue_size(workflows[idx].name, loop_route, fault)
    /\ LET name == workflows[idx].name
           impl == workflows[idx].impl
       IN IF ret'.raised # ""
          THEN /\ lastStep' = Step("size_raise", name)
               /\ on_error("size_raise")
               /\ queue_size' = queue_size
          ELSE /\ queue_size' = [queue_size EXCEPT ![name] = ret'.n]
               /\ IF impl = "base_init"
                  THEN lastStep' = Step("construct_raise", name)
                       /\ on_error("construct_raise")
                  ELSE IF impl = "base_execute"
                  THEN lastStep' = Step("execute_raise", name)
                       /\ on_error("execute_raise")
                  ELSE lastStep' = Step("executing", name)
                       /\ pc' = "execute" /\ idx' = idx
    /\ UNCHANGED <<workflows, running, loop_data, workflow_executions>>

\* result = await workflow.execute() completes: it raised, or it returned a
\* result whose success flag labels the counter that is incremented.
loop_execute(outcome) ==
    /\ pc = "execute"
    /\ LET name == workflows[idx].name IN
       IF outcome = "raise"
       THEN /\ lastStep' = Step("execute_raise", name)
            /\ on_error("execute_raise")
            /\ workflow_executions' = workflow_executions
       ELSE /\ lastStep' = Step(outcome, name)
            /\ workflow_executions' =
                   [workflow_executions EXCEPT ![<<name, outcome>>] = @ + 1]
            /\ next_workflow
    /\ UNCHANGED <<workflows, running, loop_data, queue_size>>

\* await asyncio.sleep(1) completes and the while condition is read again.
loop_sleep ==
    /\ pc = "sleep"
    /\ lastStep' = Step("slept", NoneStr)
    /\ IF loop_continues
       THEN /\ pc' = IF Len(workflows) > 0 THEN "dequeue" ELSE "sleep"
            /\ idx' = IF Len(workflows) > 0 THEN 1 ELSE 0
       ELSE /\ pc' = "done"
            /\ idx' = 0
    /\ UNCHANGED <<workflows, running, loop_data, workflow_executions, queue_size>>

\* ------------------------------------------------------------- APIServer
\* WebhookPayload: the body of a webhook request.
WebhookPayload(workflow_name, data) == [workflow_name |-> workflow_name, data |-> data]
WebhookPayloads == {WebhookPayload(w, d) : w \in Workflows, d \in Payloads}
SuccessResponse == [status |-> "success", message |-> "Data enqueued successfully"]
NoResponse == [status |-> NoneStr, message |-> NoneStr]
Requests == {"req1", "req2"}        \* webhook requests that reach the handler
NoTask == [workflow_name |-> NoneStr, data |-> NoneStr]

\* A webhook request: pc is "idle" (not yet made), "acked" (the handler has
\* returned and its background task waits) or "done" (the task has run);
\* calls is the history of the enqueue calls made for it.
NoRequest ==
    [pc |-> "idle", path |-> NoneStr, payload |-> WebhookPayload(NoneStr, NoneStr),
     response |-> NoResponse, task |-> NoTask, calls |-> << >>]

\* The WebSocket handler: pc is "new" (before accept), "receive", "enqueue",
\* "send" (the await it is at), "except" (in the handler's except clause) or
\* "closed" (the handler has ended). received, enqueued, returned, acked and
\* failed are its history: the messages received, the enqueue calls made,
\* the number that returned, the acknowledgements sent, whether a step raised.
NewStream ==
    [pc |-> "new", workflow_name |-> NoneStr, data |-> NoneStr, open |-> FALSE,
     received |-> << >>, enqueued |-> << >>, returned |-> 0, acked |-> 0,
     failed |-> FALSE]

ApiInit ==
    /\ stream = NewStream
    /\ webhooks = [r \in Requests |-> NoRequest]
    /\ teardown = NoTeardown

\* Mutation of webhook_task_workflow: the workflow is read from the body.
webhook_task_workflow_from_body(workflow_name, payload) == payload.workflow_name

\* background_tasks.add_task(self.queue_manager.enqueue, workflow_name, payload.data)
webhook_task_workflow(workflow_name, payload) == workflow_name

\* POST /webhook/{workflow_name}: queue the enqueue as a background task and
\* answer success; no store call is made before the response.
webhook_endpoint(r, workflow_name, payload) ==
    /\ webhooks[r].pc = "idle"
    /\ webhooks' = [webhooks EXCEPT ![r] =
          [pc |-> "acked", path |-> workflow_name, payload |-> payload,
           response |-> SuccessResponse,
           task |-> [workflow_name |-> webhook_task_workflow(workflow_name, payload),
                     data |-> payload.data],
           calls |-> << >>]]
    /\ UNCHANGED <<stream, teardown>>

\* The background task of a request, run after its response: the enqueue
\* call with the default queue_name; what it returns or raises reaches nobody.
background_task(r, fault) ==
    /\ webhooks[r].pc = "acked"
    /\ enqueue(webhooks[r].task.workflow_name, webhooks[r].task.data, "default", fault)
    /\ webhooks' = [webhooks EXCEPT
          ![r].pc = "done",
          ![r].calls = Append(@, [workflow_name |-> ret'.wf,
                                  data |-> webhooks[r].task.data,
                                  queue_name |-> ret'.route,
                                  raised |-> ret'.raised])]
    /\ UNCHANGED <<stream, teardown>>

\* Mutation of stream_on_error: the exception is swallowed inside the loop.
stream_on_error_continues == "receive"

\* except Exception as e: the handler leaves the while loop.
stream_on_error == "except"

\* await websocket.accept(), for the workflow of the path.
websocket_accept(workflow_name) ==
    /\ stream.pc = "new"
    /\ stream' = [stream EXCEPT !.pc = "receive", !.workflow_name = workflow_name,
                                !.open = TRUE]
    /\ UNCHANGED <<webhooks, teardown>>

\* data = await websocket.receive_json()
websocket_receive(data) ==
    /\ stream.pc = "receive"
    /\ stream' = [stream EXCEPT !.pc = "enqueue", !.data = data,
                                !.received = Append(@, data)]
    /\ UNCHANGED <<webhooks, teardown>>

\* receive_json raises: the peer has gone, or the message is not JSON.
websocket_receive_raises ==
    /\ stream.pc = "receive"
    /\ stream' = [stream EXCEPT !.pc = stream_on_error, !.failed = TRUE]
    /\ UNCHANGED <<webhooks, teardown>>

\* await self.queue_manager.enqueue(workflow_name, data)
websocket_enqueue(fault) ==
    /\ stream.pc = "enqueue"
    /\ enqueue(stream.workflow_name, stream.data, "default", fault)
    /\ stream' = [stream EXCEPT
          !.pc = IF ret'.raised = "" THEN "send" ELSE stream_on_error,
          !.enqueued = Append(@, <<ret'.wf, stream.data>>),
          !.returned = IF ret'.raised = "" THEN @ + 1 ELSE @,
          !.failed = @ \/ ret'.raised # ""]
    /\ UNCHANGED <<webhooks, teardown>>

\* await websocket.send_json({"status": "success", ...})
websocket_send ==
    /\ stream.pc = "send"
    /\ stream' = [stream EXCEPT !.pc = "receive", !.acked = @ + 1]
    /\ UNCHANGED <<webhooks, teardown>>

websocket_send_raises ==
    /\ stream.pc = "send"
    /\ stream' = [stream EXCEPT !.pc = stream_on_error, !.failed = TRUE]
    /\ UNCHANGED <<webhooks, teardown>>

\* await websocket.close() in the except clause; the handler ends.
websocket_close ==
    /\ stream.pc = "except"
    /\ stream' = [stream EXCEPT !.pc = "closed", !.open = FALSE]
    /\ UNCHANGED <<webhooks, teardown>>

\* ----------------------------------------------------- example workflows
\* Instances of the example workflow classes, each used by one task of the
\* event loop, next to the tasks of the dispatch loop and of an ingestion
\* handler.
Instances == {"w1", "w2"}
OtherTasks == {"loop", "ingest"}
Tasks == Instances \cup OtherTasks
Kinds == {"binance", "weather", "news"}

\* Model-scale stand-ins: the interpreter's recursion limit (1000 frames) and
\* options["rate_limit"] (10 messages per window).
RecursionLimit == 2
RateLimit == 1

\* __init__ of the example classes, after BaseWorkflow.__init__.
NewInstance(kind) ==
    [kind |-> kind, websocket |-> FALSE, conns |-> FALSE, retry_count |-> 0,
     message_count |-> 0, pc |-> "idle", depth |-> 0, attempts |-> 0,
     result |-> NoResult, raised |-> NoneStr,
     raisedAt |-> NoneStr, last |-> NoneStr]

InstancesInit(kinds) ==
    /\ instances = [i \in Instances |-> NewInstance(kinds[i])]
    /\ tasks = [t \in Tasks |-> "running"]

AllBinance == [i \in Instances |-> "binance"]

\* The awaits of execute and of cleanup.
ExecuteAwaits == {"rate_sleep", "connect", "recv", "pong", "fetch", "process"}
CleanupAwaits == {"closing", "settling", "disconnecting"}

\* WorkflowResult(success=..., ...) of the overriding execute methods:
\* execution_time keeps its default.
example_result(success, data, error) == WorkflowResult(success, data, error, 0)

\* for task in asyncio.all_tasks(): if task != asyncio.current_task():
\* task.cancel(). A task that has ended is not affected.
cancel_others(i) ==
    [t \in Tasks |-> IF t # i /\ tasks[t] = "running" THEN "cancelling" ELSE tasks[t]]

\* execute returns a result to its caller.
returns(inst, result) ==
    [inst EXCEPT !.pc = "idle", !.depth = 0, !.result = result, !.last = "execute"]

\* _fetch_data is entered: connect first when there is no socket.
fetch_enter(inst, depth) ==
    [inst EXCEPT !.depth = depth,
                 !.pc = IF inst.websocket THEN "recv" ELSE "connect"]

\* return await self._fetch_data(): one more frame, or RecursionError at the
\* interpreter's limit, which the except blocks turn into a failure result.
fetch_again(inst) ==
    IF inst.depth < RecursionLimit
    THEN fetch_enter(inst, inst.depth + 1)
    ELSE returns(inst, example_result(FALSE, NoneStr, "RecursionError"))

\* BinanceWebSocketWorkflow.execute(data) is called: the rate limit check,
\* then asyncio.sleep(wait_time) or _fetch_data.
binance_execute(i, elapsed) ==
    LET inst == instances[i]
        count == (IF elapsed THEN 0 ELSE inst.message_count) + 1
        called == [inst EXCEPT !.result = NoResult, !.attempts = 0, !.last = NoneStr]
    IN /\ inst.kind = "binance" /\ inst.pc = "idle" /\ tasks[i] = "running"
       /\ instances' = [instances EXCEPT ![i] =
              IF count > RateLimit
              THEN IF ~elapsed
                   THEN [called EXCEPT !.message_count = count, !.pc = "rate_sleep"]
                   ELSE fetch_enter([called EXCEPT !.message_count = 0], 1)
              ELSE fetch_enter([called EXCEPT !.message_count = count], 1)]
       /\ tasks' = tasks

\* await asyncio.sleep(wait_time) completes: message_count = 0.
binance_rate_slept(i) ==
    /\ instances[i].pc = "rate_sleep" /\ tasks[i] = "running"
    /\ instances' = [instances EXCEPT ![i] =
           fetch_enter([instances[i] EXCEPT !.message_count = 0], 1)]
    /\ tasks' = tasks

\* await websockets.connect(stream_url) completes or raises.
binance_connected(i, ok) ==
    /\ instances[i].pc = "connect" /\ tasks[i] = "running"
    /\ instances' = [instances EXCEPT ![i] =
           IF ok THEN [instances[i] EXCEPT !.websocket = TRUE, !.pc = "recv"]
           ELSE returns(instances[i],
                        example_result(FALSE, NoneStr, "Failed to connect to WebSocket"))]
    /\ tasks' = tasks

SocketEvents == {"message", "ping", "timeout", "closed"}

\* await asyncio.wait_for(self._websocket.recv(), timeout=5.0) ends: a data
\* message (process is called), a ping, TimeoutError or ConnectionClosed.
binance_received(i, event) ==
    LET inst == instances[i] IN
    /\ inst.pc = "recv" /\ tasks[i] = "running"
    /\ instances' = [instances EXCEPT ![i] =
           CASE event = "ping" -> [inst EXCEPT !.pc = "pong"]
             [] event = "timeout" ->
                   returns(inst, example_result(FALSE, NoneStr, "Timeout waiting for data"))
             [] event = "closed" -> fetch_again([inst EXCEPT !.websocket = FALSE])
             [] OTHER -> [inst EXCEPT !.pc = "process", !.depth = 0,
                                      !.attempts = @ + 1]]
    /\ tasks' = tasks

\* await self._websocket.pong() completes or raises.
binance_ponged(i, ok) ==
    /\ instances[i].pc = "pong" /\ tasks[i] = "running"
    /\ instances' = [instances EXCEPT ![i] =
           IF ok THEN fetch_again(instances[i])
           ELSE returns(instances[i], example_result(FALSE, NoneStr, "pong"))]
    /\ tasks' = tasks

\* WeatherAPIWorkflow.execute / NewsRSSWorkflow.execute is called.
plain_execute(i) ==
    LET inst == instances[i] IN
    /\ inst.kind \in {"weather", "news"} /\ inst.pc = "idle" /\ tasks[i] = "running"
    /\ instances' = [instances EXCEPT ![i] =
           [inst EXCEPT !.result = NoResult, !.last = NoneStr,
                        !.pc = IF inst.kind = "weather" THEN "fetch" ELSE "process",
                        !.attempts = IF inst.kind = "weather" THEN 0 ELSE 1]]
    /\ tasks' = tasks

\* await self.fetch_weather_data() returns or raises.
weather_fetched(i, ok) ==
    /\ instances[i].pc = "fetch" /\ tasks[i] = "running"
    /\ instances' = [instances EXCEPT ![i] =
           IF ok THEN [instances[i] EXCEPT !.pc = "process", !.attempts = @ + 1]
           ELSE returns(instances[i], example_result(FALSE, NoneStr, "fetch"))]
    /\ tasks' = tasks

\* Mutation of process_catches: process lets its failures out.
process_catches_nothing(kind) == FALSE

\* try ... except Exception inside process of the three classes.
process_catches(kind) == kind \in {"binance", "weather", "news"}

\* The map with an error entry that process returns from its except block.
ErrorMap == "error_map"

\* await self.process(...) ends: it returned the processed data, or a step
\* inside it raised (a conversion, the feed request, the enqueue).
process_done(i, ok) ==
    LET inst == instances[i]
        queued == [inst EXCEPT !.conns = @ \/ (ok /\ inst.kind # "news")]
    IN /\ inst.pc = "process" /\ tasks[i] = "running"
       /\ instances' = [instances EXCEPT ![i] =
              IF ok THEN returns(queued, example_result(TRUE, "processed", NoneStr))
              ELSE IF process_catches(inst.kind)
              THEN returns(inst, example_result(TRUE, ErrorMap, NoneStr))
              ELSE returns(inst, example_result(FALSE, NoneStr, "process"))]
       /\ tasks' = tasks

\* cleanup() is called by the owner of the instance between its executes.
cleanup(i) ==
    LET inst == instances[i] IN
    /\ inst.pc = "idle" /\ tasks[i] = "running"
    /\ instances' = [instances EXCEPT ![i] =
           [inst EXCEPT !.last = NoneStr,
                        !.pc = IF inst.kind = "binance" /\ inst.websocket THEN "closing"
                               ELSE IF inst.kind # "news" THEN "disconnecting"
                               ELSE "idle"]]
    /\ tasks' = tasks

\* finally: self._websocket = None and every other task is cancelled; then
\* disconnect_all is awaited.
cleanup_finally(i) ==
    /\ instances' = [instances EXCEPT ![i] =
           [instances[i] EXCEPT !.websocket = FALSE, !.pc = "disconnecting"]]
    /\ tasks' = cancel_others(i)

\* await self._websocket.close() returns (asyncio.sleep(0.1) follows) or raises.
cleanup_closed(i, ok) ==
    /\ instances[i].pc = "closing" /\ tasks[i] = "running"
    /\ IF ok
       THEN /\ instances' = [instances EXCEPT ![i].pc = "settling"]
            /\ tasks' = tasks
       ELSE cleanup_finally(i)

\* await asyncio.sleep(0.1) completes.
cleanup_settled(i) ==
    /\ instances[i].pc = "settling" /\ tasks[i] = "running"
    /\ cleanup_finally(i)

\* await self._queue_manager.disconnect_all() returns and so does cleanup.
cleanup_disconnected(i) ==
    /\ instances[i].pc = "disconnecting" /\ tasks[i] = "running"
    /\ instances' = [instances EXCEPT ![i] =
           [instances[i] EXCEPT !.conns = FALSE, !.pc = "idle", !.last = "cleanup"]]
    /\ tasks' = tasks

\* CancelledError is thrown into the task at the await it is suspended in; it
\* is not an Exception, so no except block of the workflow catches it. In
\* cleanup the finally block still runs.
task_cancelled(t) ==
    /\ tasks[t] = "cancelling"
    /\ IF t \in Instances /\ instances[t].pc # "idle"
       THEN LET inst == instances[t]
                unwound == [inst EXCEPT !.pc = "raised", !.raised = "CancelledError",
                                        !.raisedAt = inst.pc, !.depth = 0]
            IN IF inst.pc \in {"closing", "settling"}
               THEN /\ instances' = [instances EXCEPT ![t] =
                                         [unwound EXCEPT !.websocket = FALSE]]
                    /\ tasks' = [cancel_others(t) EXCEPT ![t] = "cancelled"]
               ELSE /\ instances' = [instances EXCEPT ![t] = unwound]
                    /\ tasks' = [tasks EXCEPT ![t] = "cancelled"]
       ELSE /\ instances' = instances
            /\ tasks' = [tasks EXCEPT ![t] = "cancelled"]

\* ------------------------------------------- specification: one queue, one route
\* Sequential callers of enqueue/dequeue on workflow "A" through route "default",
\* the store reachable, max_queue_length >= 1.
DefaultOnly == [r \in {"default"} |-> "t0"]
QList == <<"t0", "A">>

InitQueue ==
    /\ now = 0
    /\ \E bound \in 1..MaxM : QueueInit(DefaultOnly, bound)
    /\ WorkflowInit(0)
    /\ ProcessorInit
    /\ ApiInit /\ InstancesInit(AllBinance)

QEnqueue ==
    /\ Len(enqLog[QList]) < MaxEnq
    /\ \E d \in Payloads : enqueue("A", d, "default", "none")
                          /\ log_enqueue("A", d, "default", "none")
    /\ UNCHANGED <<cvars, producers, avars, wvars, now, evars, lvars>>

QDequeue ==
    /\ Len(deqLog[QList]) < MaxDeqLog
    /\ dequeue("A", "default", "none")
    /\ log_dequeue
    /\ UNCHANGED <<cvars, producers, avars, wvars, now, evars, lvars>>

NextQueue == QEnqueue \/ QDequeue \/ Tick

SpecQueue == InitQueue /\ [][NextQueue]_vars

\* --------------------------------------- specification: a bound of zero
\* The same callers on a manager whose configuration gives
\* max_queue_length = 0 (RedisConfig accepts any int).
InitZero ==
    /\ now = 0
    /\ QueueInit(DefaultOnly, 0)
    /\ WorkflowInit(0)
    /\ ProcessorInit
    /\ ApiInit /\ InstancesInit(AllBinance)

ZEnqueue == QEnqueue

ZDequeue == QDequeue

NextZero == ZEnqueue \/ ZDequeue \/ Tick

SpecZero == InitZero /\ [][NextZero]_vars

\* ------------------------------- specification: execute calls on one instance
\* One workflow instance built at time 0; up to MaxCalls execute calls are made
\* on it by two tasks, one after another or overlapping at the process
\* step's suspension.
InitExec ==
    /\ now = 0
    /\ QueueInit(DefaultOnly, 1)
    /\ \E mr \in 0..MaxRetries : WorkflowInit(mr)
    /\ ProcessorInit
    /\ ApiInit /\ InstancesInit(AllBinance)

EExecute == \E c \in Callers, plan \in 0..AlwaysFails : execute(c, plan) /\ UNCHANGED <<qvars, avars, wvars, now, lvars, xvars>>

EProcessReturns == \E c \in Callers, d \in ProcessResults : process_returns(c, d) /\ UNCHANGED <<qvars, avars, wvars, now, lvars, xvars>>

EProcessRaises == \E c \in Callers, e \in Errors : process_raises(c, e) /\ UNCHANGED <<qvars, avars, wvars, now, lvars, xvars>>

ProcessStep(c) ==
    /\ \/ \E d \in ProcessResults : process_returns(c, d)
       \/ \E e \in Errors : process_raises(c, e)
    /\ UNCHANGED <<qvars, avars, wvars, now, lvars, xvars>>

NextExec == EExecute \/ EProcessReturns \/ EProcessRaises \/ Tick

SpecExec == InitExec /\ [][NextExec]_vars

\* The same calls with the clock standing still (termination does not read it),
\* and every process attempt that was started completes.
NextExecFair == EExecute \/ EProcessReturns \/ EProcessRaises

SpecExecFair ==
    /\ InitExec
    /\ [][NextExecFair]_vars
    /\ \A c \in Callers : WF_vars(ProcessStep(c))

\* ------------------------------- specification: execute calls on the clock
\* The instance is built at time 0; the clock advances before, between and
\* during the execute calls, and the time of each call is recorded.
TExecute ==
    \E c \in Callers, plan \in 0..AlwaysFails :
        /\ execute(c, plan)
        /\ calledAt' = [calledAt EXCEPT ![c] = now]
        /\ UNCHANGED <<qvars, avars, wvars, now, lvars, validation, invocations>>

TProcessReturns == EProcessReturns

TProcessRaises == EProcessRaises

NextTime == TExecute \/ TProcessReturns \/ TProcessRaises \/ Tick

SpecTime == InitExec /\ [][NextTime]_vars

\* ------------------------ specification: execute calls with a validate hook
\* The instance's class overrides validate; each execute call is made with
\* data that the hook accepts or rejects.
VExecute ==
    \E c \in Callers, plan \in 0..AlwaysFails, valid \in BOOLEAN :
        /\ execute(c, plan)
        /\ validation' = [validation EXCEPT
                              ![c] = [valid |-> valid, consulted |-> execute_validates]]
        /\ UNCHANGED <<qvars, avars, wvars, now, lvars, calledAt, invocations>>

VProcessReturns == EProcessReturns

VProcessRaises == EProcessRaises

NextValidate == VExecute \/ VProcessReturns \/ VProcessRaises

SpecValidate == InitExec /\ [][NextValidate]_vars

\* ------------------------------------------ specification: the dispatch loop
\* The owner registers classes, starts the loop and may call stop() at any
\* suspension point; producers enqueue on the default route meanwhile; the
\* store may fail any call of the loop.
InitLoop ==
    /\ now = 0
    /\ QueueInit(DefaultOnly, MaxM)
    /\ WorkflowInit(0)
    /\ ProcessorInit
    /\ ApiInit /\ InstancesInit(AllBinance)

TotalEnqueued == Len(enqLog[<<"t0", "A">>]) + Len(enqLog[<<"t0", "B">>])

\* History of the current pass: a dequeue of the loop returned or raised for
\* the workflow at the for loop's position.
pass_dequeue ==
    LET name == workflows[idx].name IN
    pass' = [pass EXCEPT !.visited = Append(@, name),
                         !.popped[name] = IF ret'.raised = "" /\ ret'.item # NoneItem
                                          THEN @ + 1 ELSE @,
                         !.deqRaised = @ \/ ret'.raised # "",
                         !.failed[name] = IF ret'.raised # "" THEN "dequeue_raise" ELSE @]

\* History of the current pass: the step raised for the workflow at the for
\* loop's position (queue-size query, construction or execution), or not.
pass_step ==
    pass' = IF lastStep'.kind \in {"size_raise", "construct_raise", "execute_raise"}
            THEN [pass EXCEPT !.failed[lastStep'.wf] = lastStep'.kind]
            ELSE pass

\* History of the current pass: the sleep ended and a new pass began, or not.
pass_sleep == pass' = IF pc' = "done" THEN pass ELSE NewPass

\* History since stop(): the first stop() call on the running loop.
stop_called ==
    afterStop' = IF pc \in {"idle", "done", "raised"} \/ afterStop.called
                 THEN afterStop
                 ELSE [afterStop EXCEPT !.called = TRUE, !.at = pc]

\* History since stop(): an execution ended.
stop_executed ==
    afterStop' = IF afterStop.called
                 THEN [afterStop EXCEPT !.finished = @ + 1] ELSE afterStop

\* History since stop(): a sleep ended, and a new pass began or not.
stop_slept ==
    afterStop' = IF ~afterStop.called THEN afterStop
                 ELSE [afterStop EXCEPT !.sleeps = @ + 1,
                                        !.passes = IF pc' = "done" THEN @ ELSE @ + 1]

LEnqueue ==
    /\ TotalEnqueued < MaxLoopEnq
    /\ \E w \in Workflows : enqueue(w, "d1", "default", "none")
                            /\ log_enqueue(w, "d1", "default", "none")
    /\ UNCHANGED <<cvars, producers, avars, wvars, now, evars, lvars>>

\* The loop with the history of the current pass.
LRegister == \E cls \in Classes : register_workflow(cls) /\ UNCHANGED <<qvars, avars, wvars, now, evars, regLog, pass, afterStop>>

LStart == start /\ pass' = NewPass /\ UNCHANGED <<qvars, avars, wvars, now, evars, regLog, afterStop>>

LStop == stop /\ UNCHANGED <<qvars, avars, wvars, now, evars, regLog, pass, afterStop>>

LDequeue == \E fault \in {"none", "connect", "lpop"} : loop_dequeue(fault) /\ pass_dequeue /\ UNCHANGED <<hvars, cvars, producers, avars, wvars, now, evars, regLog, afterStop>>

LSize == \E fault \in {"none", "llen"} : loop_size(fault) /\ pass_step /\ UNCHANGED <<hvars, cvars, producers, avars, wvars, now, evars, regLog, afterStop>>

LExecute == \E outcome \in Statuses \cup {"raise"} : loop_execute(outcome) /\ pass_step /\ UNCHANGED <<qvars, avars, wvars, now, evars, regLog, afterStop>>

LSleep == loop_sleep /\ pass_sleep /\ UNCHANGED <<qvars, avars, wvars, now, evars, regLog, afterStop>>

NextLoop == LRegister \/ LStart \/ LStop \/ LEnqueue \/ LDequeue \/ LSize \/ LExecute \/ LSleep

SpecLoop == InitLoop /\ [][NextLoop]_vars

\* The loop with the history since stop().
SRegister == \E cls \in Classes : register_workflow(cls) /\ UNCHANGED <<qvars, avars, wvars, now, evars, regLog, pass, afterStop>>

SStart == start /\ afterStop' = NotStopped /\ UNCHANGED <<qvars, avars, wvars, now, evars, regLog, pass>>

SStop == stop /\ stop_called /\ UNCHANGED <<qvars, avars, wvars, now, evars, regLog, pass>>

SEnqueue == LEnqueue

SDequeue == \E fault \in {"none", "connect", "lpop"} : loop_dequeue(fault) /\ UNCHANGED <<hvars, cvars, producers, avars, wvars, now, evars, regLog, pass, afterStop>>

SSize == \E fault \in {"none", "llen"} : loop_size(fault) /\ UNCHANGED <<hvars, cvars, producers, avars, wvars, now, evars, regLog, pass, afterStop>>

SExecute == \E outcome \in Statuses \cup {"raise"} : loop_execute(outcome) /\ stop_executed /\ UNCHANGED <<qvars, avars, wvars, now, evars, regLog, pass>>

SSleep == loop_sleep /\ stop_slept /\ UNCHANGED <<qvars, avars, wvars, now, evars, regLog, pass>>

LoopStep == SDequeue \/ SSize \/ SExecute \/ SSleep

NextLoopStop == SRegister \/ SStart \/ SStop \/ SEnqueue \/ SDequeue \/ SSize \/ SExecute \/ SSleep

\* Every store call, execution and sleep of the loop completes.
SpecLoopFair == InitLoop /\ [][NextLoopStop]_vars /\ WF_vars(LoopStep)

\* ------------------------------------- specification: stop() before start()
\* The loop with the history since stop(), a stop() before start() noted
\* apart; the owner registers classes that define process.
early_stop_called ==
    IF pc = "idle"
    THEN afterStop' = [afterStop EXCEPT !.early = TRUE]
    ELSE stop_called

KRegister == \E w \in Workflows : register_workflow([name |-> w, impl |-> "own"]) /\ UNCHANGED <<qvars, avars, wvars, now, evars, regLog, pass, afterStop>>

KStart == start /\ afterStop' = [NotStopped EXCEPT !.early = afterStop.early] /\ UNCHANGED <<qvars, avars, wvars, now, evars, regLog, pass>>

KStop == stop /\ early_stop_called /\ UNCHANGED <<qvars, avars, wvars, now, evars, regLog, pass>>

KEnqueue == LEnqueue

KDequeue == \E fault \in {"none", "lpop"} : loop_dequeue(fault) /\ UNCHANGED <<hvars, cvars, producers, avars, wvars, now, evars, regLog, pass, afterStop>>

KSize == loop_size("none") /\ UNCHANGED <<hvars, cvars, producers, avars, wvars, now, evars, regLog, pass, afterStop>>

KExecute == SExecute

KSleep == SSleep

KLoopStep == KDequeue \/ KSize \/ KExecute \/ KSleep

NextSticky == KRegister \/ KStart \/ KStop \/ KEnqueue \/ KDequeue \/ KSize \/ KExecute \/ KSleep

\* Every store call, execution and sleep of the loop completes.
SpecSticky == InitLoop /\ [][NextSticky]_vars /\ WF_vars(KLoopStep)

\* ------------------------------------------------ specification: the registry
\* The owner makes up to MaxRegs register_workflow calls, with names and
\* implementations of its choice, then starts the loop, which polls the
\* (empty) queues pass after pass until it is stopped.
RRegister ==
    /\ Len(regLog) < MaxRegs
    /\ \E cls \in Classes : register_workflow(cls) /\ regLog' = Append(regLog, cls)
    /\ UNCHANGED <<qvars, avars, wvars, now, evars, pass, afterStop>>

RStart == LStart

RStop == LStop

RDequeue == LDequeue

RSleep == LSleep

NextRegistry == RRegister \/ RStart \/ RStop \/ RDequeue \/ RSleep

SpecRegistry == InitLoop /\ [][NextRegistry]_vars

\* ------------------------------ specification: the attempts of one instance
\* Execute calls on one instance, in sequence or overlapping, with every
\* process invocation counted: the one each call starts with and the one
\* each retry makes.
InitBudget == InitExec

Invoked(c) == IF call'[c].attempts > call[c].attempts \/ call'[c].no # call[c].no
              THEN 1 ELSE 0

BExecute ==
    \E c \in Callers, plan \in 0..AlwaysFails :
        /\ execute(c, plan)
        /\ invocations' = invocations + Invoked(c)
        /\ UNCHANGED <<qvars, avars, wvars, now, lvars, validation, calledAt>>

BProcessReturns == EProcessReturns

BProcessRaises ==
    \E c \in Callers, e \in Errors :
        /\ process_raises(c, e)
        /\ invocations' = invocations + Invoked(c)
        /\ UNCHANGED <<qvars, avars, wvars, now, lvars, validation, calledAt>>

NextBudget == BExecute \/ BProcessReturns \/ BProcessRaises

SpecBudget == InitBudget /\ [][NextBudget]_vars

\* ------------------------------ specification: producers and the dispatch loop
\* Two tasks enqueue for workflow "A", interleaving at their store commands,
\* while the dispatch loop polls A's queue, which is bounded at one record;
\* every append and every record a dequeue returned is logged.
InitDelivery ==
    /\ now = 0
    /\ QueueInit(DefaultOnly, 1)
    /\ WorkflowInit(0)
    /\ ProcessorInit
    /\ ApiInit /\ InstancesInit(AllBinance)

Unappended == {p \in RaceTasks : producers[p].pc \in {"from_url", "rpush"}}

GRegister ==
    /\ register_workflow([name |-> "A", impl |-> "own"])
    /\ UNCHANGED <<qvars, avars, wvars, now, evars, regLog, pass, afterStop>>

GStart == start /\ UNCHANGED <<qvars, avars, wvars, now, evars, regLog, pass, afterStop>>

GCall ==
    /\ Len(enqLog[QList]) + Cardinality(Unappended) < MaxLoopEnq
    /\ \E p \in RaceTasks, d \in Payloads : enqueue_call(p, "A", d, "default")
    /\ UNCHANGED <<hvars, cvars, avars, wvars, now, evars, lvars>>

GConnected ==
    /\ \E p \in RaceTasks : enqueue_connected(p, "default")
    /\ UNCHANGED <<hvars, cvars, avars, wvars, now, evars, lvars>>

\* History: the record RPUSH appended.
GRpush ==
    /\ \E p \in RaceTasks :
          /\ enqueue_rpush(p, "A", "default")
          /\ enqLog' = [enqLog EXCEPT ![QList] = Append(@, producers[p].item)]
    /\ UNCHANGED <<deqLog, mixed, qcalls, cvars, avars, wvars, now, evars, lvars>>

GLtrim ==
    /\ \E p \in RaceTasks : enqueue_ltrim(p, "A", "default")
    /\ UNCHANGED <<hvars, cvars, avars, wvars, now, evars, lvars>>

GLlen ==
    /\ \E p \in RaceTasks : enqueue_llen(p, "A", "default")
    /\ UNCHANGED <<hvars, cvars, avars, wvars, now, evars, lvars>>

\* History: the record the loop's dequeue returned.
GDequeue ==
    /\ \E fault \in {"none", "lpop"} : loop_dequeue(fault)
    /\ deqLog' = IF ret'.raised = "" /\ ret'.item # NoneItem
                 THEN [deqLog EXCEPT ![QList] = Append(@, ret'.item)]
                 ELSE deqLog
    /\ UNCHANGED <<enqLog, mixed, qcalls, cvars, producers, avars, wvars, now, evars, regLog,
                   pass, afterStop>>

GSize ==
    /\ loop_size("none")
    /\ UNCHANGED <<hvars, cvars, producers, avars, wvars, now, evars, regLog, pass, afterStop>>

GExecute ==
    /\ \E outcome \in Statuses \cup {"raise"} : loop_execute(outcome)
    /\ UNCHANGED <<qvars, avars, wvars, now, evars, regLog, pass, afterStop>>

GSleep == loop_sleep /\ UNCHANGED <<qvars, avars, wvars, now, evars, regLog, pass, afterStop>>

NextDelivery ==
    \/ GRegister \/ GStart \/ GCall \/ GConnected \/ GRpush \/ GLtrim \/ GLlen
    \/ GDequeue \/ GSize \/ GExecute \/ GSleep

SpecDelivery == InitDelivery /\ [][NextDelivery]_vars

\* ------------------------------------------ specification: ingestion front-end
\* A WebSocket stream, or two webhook requests, feed a manager with the
\* default route; the store may fail any enqueue. The event loop runs every
\* task that is ready: the handler's except clause and the background tasks.
IngestFaults == {"none", "connect", "rpush", "llen"}

InitIngest ==
    /\ now = 0
    /\ \E bound \in 1..MaxM : QueueInit(DefaultOnly, bound)
    /\ WorkflowInit(0)
    /\ ProcessorInit
    /\ ApiInit /\ InstancesInit(AllBinance)

IWebhook ==
    /\ \E r \in Requests, w \in Workflows, payload \in WebhookPayloads :
          webhook_endpoint(r, w, payload)
    /\ UNCHANGED <<qvars, wvars, now, evars, lvars>>

IBackground(r) ==
    /\ \E fault \in IngestFaults : background_task(r, fault)
    /\ UNCHANGED <<hvars, cvars, producers, wvars, now, evars, lvars>>

IAccept ==
    /\ \E w \in Workflows : websocket_accept(w)
    /\ UNCHANGED <<qvars, wvars, now, evars, lvars>>

IReceive ==
    /\ Len(stream.received) < MaxMsgs
    /\ \E d \in Payloads : websocket_receive(d)
    /\ UNCHANGED <<qvars, wvars, now, evars, lvars>>

IReceiveRaises == websocket_receive_raises /\ UNCHANGED <<qvars, wvars, now, evars, lvars>>

IEnqueue ==
    /\ \E fault \in IngestFaults : websocket_enqueue(fault)
    /\ UNCHANGED <<hvars, cvars, producers, wvars, now, evars, lvars>>

ISend == websocket_send /\ UNCHANGED <<qvars, wvars, now, evars, lvars>>

ISendRaises == websocket_send_raises /\ UNCHANGED <<qvars, wvars, now, evars, lvars>>

IClose == websocket_close /\ UNCHANGED <<qvars, wvars, now, evars, lvars>>

NextStream ==
    IAccept \/ IReceive \/ IReceiveRaises \/ IEnqueue \/ ISend \/ ISendRaises \/ IClose

SpecStream == InitIngest /\ [][NextStream]_vars /\ WF_vars(IClose)

NextWebhook == IWebhook \/ (\E r \in Requests : IBackground(r))

SpecWebhook ==
    InitIngest /\ [][NextWebhook]_vars /\ \A r \in Requests : WF_vars(IBackground(r))

\* ----------------------------------- specification: disconnect during enqueue
\* Two tasks enqueue on the default route while a third calls disconnect, all
\* interleaving at their awaits; the store answers every command it is sent.
InitRace ==
    /\ now = 0
    /\ QueueInit(DefaultOnly, MaxM)
    /\ WorkflowInit(0)
    /\ ProcessorInit
    /\ ApiInit /\ InstancesInit(AllBinance)

DCall ==
    /\ Len(store[QList]) < MaxEnq
    /\ redis_connections["default"] = NoConn => nextConn <= MaxConns
    /\ \E p \in RaceTasks : enqueue_call(p, "A", "d1", "default")
    /\ UNCHANGED <<hvars, cvars, avars, wvars, now, evars, lvars>>

DConnected ==
    /\ \E p \in RaceTasks : enqueue_connected(p, "default")
    /\ UNCHANGED <<hvars, cvars, avars, wvars, now, evars, lvars>>

DRpush ==
    /\ \E p \in RaceTasks : enqueue_rpush(p, "A", "default")
    /\ UNCHANGED <<hvars, cvars, avars, wvars, now, evars, lvars>>

DLtrim ==
    /\ \E p \in RaceTasks : enqueue_ltrim(p, "A", "default")
    /\ UNCHANGED <<hvars, cvars, avars, wvars, now, evars, lvars>>

DLlen ==
    /\ \E p \in RaceTasks : enqueue_llen(p, "A", "default")
    /\ UNCHANGED <<hvars, cvars, avars, wvars, now, evars, lvars>>

\* History: close() has been called on the route's connection.
DDisconnect ==
    /\ disconnect_call("default")
    /\ closed' = IF disconnect_closes("default")
                 THEN closed \cup {redis_connections["default"]} ELSE closed
    /\ UNCHANGED <<hvars, used, producers, stream, webhooks, wvars, now, evars, lvars>>

DClosed ==
    /\ disconnect_closed
    /\ UNCHANGED <<hvars, cvars, producers, stream, webhooks, wvars, now, evars, lvars>>

NextRace == DCall \/ DConnected \/ DRpush \/ DLtrim \/ DLlen \/ DDisconnect \/ DClosed

SpecRace == InitRace /\ [][NextRace]_vars

\* -------------------------------------- specification: concurrent producers
\* Three tasks enqueue for workflow "A" on the default route, their calls
\* interleaving at every await; a consumer dequeues now and then.
InitProducers ==
    /\ now = 0
    /\ \E bound \in 1..MaxM : QueueInit(DefaultOnly, bound)
    /\ WorkflowInit(0)
    /\ ProcessorInit
    /\ ApiInit /\ InstancesInit(AllBinance)

PCall ==
    /\ \E p \in Producers, d \in Payloads : enqueue_call(p, "A", d, "default")
    /\ UNCHANGED <<hvars, cvars, avars, wvars, now, evars, lvars>>

PConnected ==
    /\ \E p \in Producers : enqueue_connected(p, "default")
    /\ UNCHANGED <<hvars, cvars, avars, wvars, now, evars, lvars>>

PRpush ==
    /\ \E p \in Producers : enqueue_rpush(p, "A", "default")
    /\ UNCHANGED <<hvars, cvars, avars, wvars, now, evars, lvars>>

PLtrim ==
    /\ \E p \in Producers : enqueue_ltrim(p, "A", "default")
    /\ UNCHANGED <<hvars, cvars, avars, wvars, now, evars, lvars>>

PLlen ==
    /\ \E p \in Producers : enqueue_llen(p, "A", "default")
    /\ UNCHANGED <<hvars, cvars, avars, wvars, now, evars, lvars>>

\* The consumer's dequeue, once a connection exists.
PDequeue ==
    /\ redis_connections["default"] # NoConn
    /\ dequeue("A", "default", "none")
    /\ UNCHANGED <<hvars, cvars, producers, avars, wvars, now, evars, lvars>>

NextProducers == PCall \/ PConnected \/ PRpush \/ PLtrim \/ PLlen \/ PDequeue

SpecProducers == InitProducers /\ [][NextProducers]_vars

\* --------------------------------- specification: routes and connections
\* A manager with one or two configured routes; its owner calls connect,
\* disconnect, disconnect_all and the queue operations one after another, with
\* configured and unconfigured queue names; the store may be unreachable when
\* a connection is opened or at the first store operation of a call.
TwoRoutes == [r \in Routes |-> IF r = "default" THEN "t0" ELSE "t1"]
QueueNames == Routes \cup {"unlisted"}

InitConn ==
    /\ now = 0
    /\ \E configs \in {DefaultOnly, TwoRoutes} : QueueInit(configs, MaxM)
    /\ WorkflowInit(0)
    /\ ProcessorInit
    /\ ApiInit /\ InstancesInit(AllBinance)

\* The call may open a connection only while the model has one left.
MayOpen(queue_name, fault) == connect_opens(queue_name, fault) => nextConn <= MaxConns

\* History: the handle the call ran its store operations on (none when the
\* call ended before them).
log_use(queue_name) ==
    /\ used' = IF ret'.raised \in {"ValueError", "KeyError"}
                  \/ redis_connections'[queue_name] = NoConn
               THEN NoConn
               ELSE redis_connections'[queue_name]
    /\ closed' = closed
    /\ qcalls' = 1 - qcalls
    /\ UNCHANGED <<enqLog, deqLog, mixed, producers>>

\* History: the handles the call closed.
log_close ==
    /\ closed' = closed \cup {redis_connections[r] :
                        r \in {x \in DOMAIN redis_connections :
                                  redis_connections[x] # NoConn
                                  /\ redis_connections'[x] # redis_connections[x]}}
    /\ used' = NoConn
    /\ qcalls' = 1 - qcalls
    /\ UNCHANGED <<enqLog, deqLog, mixed>>
    /\ producers' = producers

CConnect ==
    /\ \E q \in QueueNames, fault \in {"none", "connect"} :
          MayOpen(q, fault) /\ connect(q, fault)
    /\ used' = NoConn /\ closed' = closed /\ qcalls' = 1 - qcalls
    /\ UNCHANGED <<enqLog, deqLog, mixed, producers, avars, wvars, now, evars, lvars>>

CDisconnect ==
    /\ \E q \in QueueNames : disconnect(q)
    /\ log_close
    /\ UNCHANGED <<avars, wvars, now, evars, lvars>>

CDisconnectAll ==
    /\ disconnect_all
    /\ log_close
    /\ UNCHANGED <<avars, wvars, now, evars, lvars>>

CEnqueue ==
    /\ \E q \in QueueNames, fault \in {"none", "connect", "rpush"} :
          MayOpen(q, fault) /\ enqueue("A", "d1", q, fault) /\ log_use(q)
    /\ UNCHANGED <<avars, wvars, now, evars, lvars>>

CDequeue ==
    /\ \E q \in QueueNames, fault \in {"none", "connect", "lpop"} :
          MayOpen(q, fault) /\ dequeue("A", q, fault) /\ log_use(q)
    /\ UNCHANGED <<avars, wvars, now, evars, lvars>>

CSize ==
    /\ \E q \in QueueNames, fault \in {"none", "connect", "llen"} :
          MayOpen(q, fault) /\ get_queue_size("A", q, fault) /\ log_use(q)
    /\ UNCHANGED <<avars, wvars, now, evars, lvars>>

CAllSizes ==
    /\ \E failAt \in Routes \cup {"none"}, fault \in {"none", "connect", "llen"} :
          /\ nextConn + Cardinality(all_sizes_opened(failAt, fault)) <= MaxConns + 1
          /\ get_all_queue_sizes("A", failAt, fault)
    /\ used' = IF ret'.raised = ""
               THEN redis_connections'[ConfiguredOrder[Len(ConfiguredOrder)]]
               ELSE NoConn
    /\ closed' = closed
    /\ qcalls' = 1 - qcalls
    /\ UNCHANGED <<enqLog, deqLog, mixed, producers, avars, wvars, now, evars, lvars>>

NextConn == CConnect \/ CDisconnect \/ CDisconnectAll \/ CEnqueue \/ CDequeue \/ CSize \/ CAllSizes

SpecConn == InitConn /\ [][NextConn]_vars

\* ----------------------------------- specification: routes and their targets
\* The same calls on a manager whose two routes lead to one target, or to
\* two different targets.
SameTarget == [r \in Routes |-> "t0"]

InitShared ==
    /\ now = 0
    /\ \E configs \in {SameTarget, TwoRoutes} : QueueInit(configs, MaxM)
    /\ WorkflowInit(0)
    /\ ProcessorInit
    /\ ApiInit /\ InstancesInit(AllBinance)

HEnqueue == CEnqueue

HDequeue == CDequeue

HSize == CSize

NextShared == HEnqueue \/ HDequeue \/ HSize

SpecShared == InitShared /\ [][NextShared]_vars

\* ------------------------------------- specification: the loop and the routes
\* The dispatch loop on a manager with two routes to different targets, or
\* with the high-priority route only, each list bounded at one record;
\* producers enqueue on every configured route.
HighOnly == [r \in {"high_priority"} |-> "t1"]

InitRoutes ==
    /\ now = 0
    /\ \E configs \in {TwoRoutes, HighOnly} : QueueInit(configs, 1)
    /\ WorkflowInit(0)
    /\ ProcessorInit
    /\ ApiInit /\ InstancesInit(AllBinance)

OnDefault == Len(store[<<"t0", "A">>]) + Len(store[<<"t0", "B">>])
Counted == workflow_executions[<<"A", "success">>] + workflow_executions[<<"A", "failure">>]
           + workflow_executions[<<"B", "success">>] + workflow_executions[<<"B", "failure">>]

OEnqueue ==
    /\ \E w \in Workflows, q \in DOMAIN redis_configs :
          /\ q = "default" => Counted + OnDefault < MaxLoopEnq
          /\ enqueue(w, "d1", q, "none")
    /\ UNCHANGED <<hvars, cvars, producers, avars, wvars, now, evars, lvars>>

ORegister == \E w \in Workflows : register_workflow([name |-> w, impl |-> "own"]) /\ UNCHANGED <<qvars, avars, wvars, now, evars, regLog, pass, afterStop>>

OStart == start /\ UNCHANGED <<qvars, avars, wvars, now, evars, regLog, pass, afterStop>>

ODequeue == \E fault \in {"none", "lpop"} : loop_dequeue(fault) /\ UNCHANGED <<hvars, cvars, producers, avars, wvars, now, evars, regLog, pass, afterStop>>

OSize == loop_size("none") /\ UNCHANGED <<hvars, cvars, producers, avars, wvars, now, evars, regLog, pass, afterStop>>

OExecute == \E outcome \in Statuses \cup {"raise"} : loop_execute(outcome) /\ UNCHANGED <<qvars, avars, wvars, now, evars, regLog, pass, afterStop>>

OSleep == loop_sleep /\ UNCHANGED <<qvars, avars, wvars, now, evars, regLog, pass, afterStop>>

NextRoutes == OEnqueue \/ ORegister \/ OStart \/ ODequeue \/ OSize \/ OExecute \/ OSleep

SpecRoutes == InitRoutes /\ [][NextRoutes]_vars

\* ------------------------------------- specification: the example workflows
\* Two tasks, each with its own instance of an example class, call execute
\* and cleanup again and again; the socket, the HTTP requests and the store
\* answer in every way they can.
InitExamples ==
    /\ now = 0
    /\ QueueInit(DefaultOnly, MaxM)
    /\ WorkflowInit(0)
    /\ ProcessorInit
    /\ ApiInit
    /\ \E k \in Kinds : InstancesInit([i \in Instances |-> IF i = "w1" THEN k ELSE "binance"])

XRest == <<qvars, avars, now, evars, lvars>>

XExecute(i) == (\E elapsed \in BOOLEAN : binance_execute(i, elapsed)) /\ UNCHANGED XRest

XPlainExecute(i) == plain_execute(i) /\ UNCHANGED XRest

XRateSlept(i) == binance_rate_slept(i) /\ UNCHANGED XRest

XConnected(i) == (\E ok \in BOOLEAN : binance_connected(i, ok)) /\ UNCHANGED XRest

XReceived(i) == (\E event \in SocketEvents : binance_received(i, event)) /\ UNCHANGED XRest

XPonged(i) == (\E ok \in BOOLEAN : binance_ponged(i, ok)) /\ UNCHANGED XRest

XFetched(i) == (\E ok \in BOOLEAN : weather_fetched(i, ok)) /\ UNCHANGED XRest

XProcessed(i) == (\E ok \in BOOLEAN : process_done(i, ok)) /\ UNCHANGED XRest

XCleanup(i) == cleanup(i) /\ UNCHANGED XRest

XClosed(i) == (\E ok \in BOOLEAN : cleanup_closed(i, ok)) /\ UNCHANGED XRest

XSettled(i) == cleanup_settled(i) /\ UNCHANGED XRest

XDisconnected(i) == cleanup_disconnected(i) /\ UNCHANGED XRest

XCancelled(t) == task_cancelled(t) /\ UNCHANGED XRest

\* The awaits of an instance's task complete.
XCompletes(i) ==
    \/ XRateSlept(i) \/ XConnected(i) \/ XReceived(i) \/ XPonged(i) \/ XFetched(i)
    \/ XProcessed(i) \/ XClosed(i) \/ XSettled(i) \/ XDisconnected(i) \/ XCancelled(i)

NextExamples ==
    \/ \E i \in Instances : XExecute(i)
    \/ \E i \in Instances : XPlainExecute(i)
    \/ \E i \in Instances : XRateSlept(i)
    \/ \E i \in Instances : XConnected(i)
    \/ \E i \in Instances : XReceived(i)
    \/ \E i \in Instances : XPonged(i)
    \/ \E i \in Instances : XFetched(i)
    \/ \E i \in Instances : XProcessed(i)
    \/ \E i \in Instances : XCleanup(i)
    \/ \E i \in Instances : XClosed(i)
    \/ \E i \in Instances : XSettled(i)
    \/ \E i \in Instances : XDisconnected(i)
    \/ \E t \in Tasks : XCancelled(t)

\* Every await of a task ends.
SpecExamples ==
    InitExamples /\ [][NextExamples]_vars /\ \A i \in Instances : WF_vars(XCompletes(i))

\* ------------------------------- specification: execute of the example classes
\* The tasks call execute of their instances again and again; no cleanup runs.
NextOverride ==
    \/ \E i \in Instances : XExecute(i)
    \/ \E i \in Instances : XPlainExecute(i)
    \/ \E i \in Instances : XRateSlept(i)
    \/ \E i \in Instances : XConnected(i)
    \/ \E i \in Instances : XReceived(i)
    \/ \E i \in Instances : XPonged(i)
    \/ \E i \in Instances : XFetched(i)
    \/ \E i \in Instances : XProcessed(i)

SpecOverride == InitExamples /\ [][NextOverride]_vars

\* ----------------------------------------------------------------- claims
Min(a, b) == IF a < b THEN a ELSE b
Loaded(list) == [i \in 1..Len(list) |-> JsonLoads(list[i])]
EnqueueReturned == qcalls' # qcalls /\ ret'.op = "enqueue" /\ ret'.raised = ""
DequeueCalled == qcalls' # qcalls /\ ret'.op = "dequeue"
RetKey(r) == <<redis_configs[r.route], r.wf>>

\* C1: after N > max_queue_length enqueues followed only by dequeues, the i-th
\* dequeue returns the i-th of the last max_queue_length enqueued records, and
\* every dequeue after the max_queue_length-th returns None.
C1_FifoBound ==
    \A l \in Lists :
        (~mixed[l] /\ Len(enqLog[l]) > max_queue_length) =>
            \A i \in 1..Len(deqLog[l]) :
                deqLog[l][i] =
                    IF i <= max_queue_length
                    THEN enqLog[l][Len(enqLog[l]) - max_queue_length + i]
                    ELSE NoneItem

\* The example scenario: bound 2, three enqueues of distinguishable records,
\* then three dequeues.
C1_Witness ==
    /\ max_queue_length = 2
    /\ ~mixed[QList]
    /\ Len(enqLog[QList]) = 3
    /\ enqLog[QList][1] # enqLog[QList][2]
    /\ Len(deqLog[QList]) = 3
    /\ deqLog[QList][1] = enqLog[QList][2]
    /\ deqLog[QList][3] = NoneItem

\* C2: when an enqueue returns, the list it appended to holds at most
\* max_queue_length records, they are a tail of the list as appended, and the
\* record just appended is the last of them (only head records were dropped).
C2_LengthBound ==
    [][EnqueueReturned =>
        LET key == RetKey(ret')
            appended == Append(store[key], JsonDumps(ret'.item))
            kept == store'[key]
        IN /\ Len(kept) <= max_queue_length
           /\ kept = SubSeq(appended, Len(appended) - Len(kept) + 1, Len(appended))
           /\ kept # << >>
           /\ kept[Len(kept)] = JsonDumps(ret'.item)
           /\ ret'.n = Len(kept)]_vars

\* An enqueue returned after evicting the oldest record of a full list.
C2_Witness ==
    /\ ret.op = "enqueue" /\ ret.raised = ""
    /\ Len(enqLog[QList]) > max_queue_length
    /\ Len(store[QList]) = max_queue_length
    /\ Loaded(store[QList])[1] # enqLog[QList][1]

\* C3: in any interleaving of enqueues and dequeues the resident records are a
\* contiguous run of the enqueue history in enqueue order; a dequeue on a
\* non-empty list removes and returns its head, and a dequeue on an empty list
\* returns None without raising and leaves the list empty.
ResidentInOrder ==
    \A l \in Lists :
        \E off \in 0..Len(enqLog[l]) :
            /\ off + Len(store[l]) <= Len(enqLog[l])
            /\ \A i \in 1..Len(store[l]) : JsonLoads(store[l][i]) = enqLog[l][off + i]

C3_StrictFifo ==
    /\ []ResidentInOrder
    /\ [][DequeueCalled =>
            LET key == RetKey(ret') IN
            /\ ret'.raised = ""
            /\ IF store[key] # << >>
               THEN /\ ret'.item = JsonLoads(Head(store[key]))
                    /\ store'[key] = Tail(store[key])
               ELSE /\ ret'.item = NoneItem
                    /\ store'[key] = << >>]_vars

\* Interleaved calls: a dequeue returned a record after an earlier dequeue had
\* been followed by an enqueue, and a dequeue found the list empty.
C3_Witness ==
    /\ mixed[QList]
    /\ Len(deqLog[QList]) >= 2
    /\ deqLog[QList][1] # NoneItem
    /\ deqLog[QList][Len(deqLog[QList])] = NoneItem
    /\ ret.op = "dequeue"

Returned(c) == call[c].pc = "returned"
Fresh(c) == call[c].rc0 = 0 /\ ~call[c].overlap

\* C4 as stated: every execute call (overlapping no other call on the instance)
\* whose process step always fails invokes process exactly max_retries + 1 times
\* before it returns success=false.
C4_RetryBound_AsStated ==
    \A c \in Callers :
        (Returned(c) /\ ~call[c].overlap /\ call[c].plan = AlwaysFails) =>
            /\ call[c].attempts = max_retries + 1
            /\ ~call[c].result.success

\* C4 (amended): an execute call that starts with retry_count = 0 and overlaps
\* no other execute call on the instance, and whose process step always fails,
\* has produced no result while fewer than max_retries + 1 process attempts have
\* failed, and returns success=false after exactly max_retries + 1 attempts.
C4_RetryBound ==
    \A c \in Callers :
        (Fresh(c) /\ call[c].plan = AlwaysFails) =>
            /\ Active(c) => (call[c].nresults = 0 /\ call[c].attempts <= max_retries + 1)
            /\ call[c].fails < max_retries + 1 => Active(c)
            /\ Returned(c) =>
                  /\ call[c].attempts = max_retries + 1
                  /\ call[c].fails = max_retries + 1
                  /\ ~call[c].result.success

C4_Witness ==
    \E c \in Callers :
        /\ Returned(c) /\ Fresh(c) /\ call[c].plan = AlwaysFails
        /\ max_retries = 2 /\ call[c].attempts = 3
        /\ ~call[c].result.success

\* C5 as stated: for k < max_retries, every execute call (overlapping no other
\* call on the instance) whose process step fails on its first k attempts and
\* then succeeds returns success=true with the value process returned and no
\* error, and leaves retry_count = k.
C5_RetrySuccess_AsStated ==
    \A c \in Callers :
        (Returned(c) /\ ~call[c].overlap /\ call[c].no = ncalls
            /\ call[c].plan < max_retries) =>
            /\ call[c].result.success
            /\ call[c].result.data \in ProcessResults
            /\ call[c].result.error = NoneStr
            /\ retry_count = call[c].plan

\* C5 (amended): the same for an execute call that starts with retry_count = 0
\* and overlaps no other execute call (the counter is read before a later call
\* starts).
C5_RetrySuccess ==
    \A c \in Callers :
        (Returned(c) /\ Fresh(c) /\ call[c].no = ncalls
            /\ call[c].plan < max_retries) =>
            /\ call[c].result.success
            /\ call[c].result.data \in ProcessResults
            /\ call[c].result.error = NoneStr
            /\ call[c].fails = call[c].plan
            /\ retry_count = call[c].plan

C5_Witness ==
    \E c \in Callers :
        /\ Returned(c) /\ Fresh(c) /\ call[c].no = ncalls
        /\ max_retries = 2 /\ call[c].plan = 1
        /\ call[c].result.success /\ retry_count = 1

\* C6: a result with success=true has data set and no error; a result with
\* success=false has no data and its error is the message of the last failed
\* attempt.
C6_MutualExclusivity ==
    \A c \in Callers :
        call[c].nresults > 0 =>
            LET r == call[c].result IN
            /\ r.success => (r.error = NoneStr /\ r.data # NoneStr)
            /\ ~r.success => (r.data = NoneStr /\ r.error # NoneStr
                               /\ r.error = call[c].lastErr)

\* Both kinds of result exist at once, the failed one after a retry.
C6_Witness ==
    \E c, o \in Callers :
        /\ call[c].nresults > 0 /\ call[c].result.success
        /\ call[o].nresults > 0 /\ ~call[o].result.success
        /\ call[o].fails >= 2

\* C7: an execute call never ends by raising, produces at most one result and
\* exactly one once it has returned, and (each process attempt returning) every
\* call that was started returns.
C7_FailureContainment ==
    /\ [](\A c \in Callers :
            /\ call[c].pc # "raised"
            /\ call[c].nresults <= 1
            /\ (call[c].pc = "returned" <=> call[c].nresults = 1))
    /\ \A c \in Callers : Active(c) ~> Returned(c)

\* A call returned its single failed result after every retry failed.
C7_Witness ==
    \E c \in Callers :
        /\ Returned(c) /\ call[c].nresults = 1
        /\ ~call[c].result.success
        /\ call[c].fails = max_retries + 1 /\ max_retries >= 1

\* ------------------------------------------------------ dispatch loop claims
ErrorKinds == {"dequeue_raise", "size_raise", "construct_raise", "execute_raise"}
ProcessorStepped == lastStep' # lastStep \/ pc' # pc \/ idx' # idx

\* C8: during a pass the workflows visited so far are the registered names in
\* registration order up to the for loop's position, at the end-of-pass sleep
\* they are all the registered names, each once; no workflow has more than one
\* record dequeued in a pass; and when no dequeue of the pass failed, every
\* registered workflow whose queue held data when the pass began (both A and B
\* when both did) has had exactly one record dequeued by the time of the sleep.
C8_RoundRobinPass ==
    /\ pc = "dequeue" => pass.visited = SubSeq(Names(workflows), 1, idx - 1)
    /\ pc \in {"size", "execute"} => pass.visited = SubSeq(Names(workflows), 1, idx)
    /\ pc \in {"sleep", "done"} => pass.visited = Names(workflows)
    /\ \A w \in Workflows : pass.popped[w] <= 1
    /\ (pc = "sleep" /\ ~pass.deqRaised) =>
            \A i \in 1..Len(workflows) :
                workflows[i].name \in pass.held => pass.popped[workflows[i].name] = 1

\* B then A were registered, both queues held data when the pass began, and
\* the pass dequeued and executed one record of each before sleeping.
C8_Witness ==
    /\ pc = "sleep"
    /\ Names(workflows) = <<"B", "A">>
    /\ pass.held = {"A", "B"}
    /\ pass.popped["A"] = 1 /\ pass.popped["B"] = 1
    /\ workflow_executions[<<"A", "success">>] = 1
    /\ workflow_executions[<<"B", "failure">>] = 1

\* C9: start() never ends by raising and returns only with the running flag
\* cleared, which only stop() does; a step in which dequeue, the queue-size query, the
\* construction or the execution raises for the current workflow counts no
\* execution, leaves the running flag alone and moves the pass on to the next
\* registered workflow, or to the sleep after the last one.
C9_LoopSurvivesErrors ==
    /\ [](pc # "raised" /\ (pc = "done" => ~running))
    /\ [][(ProcessorStepped /\ lastStep'.kind \in ErrorKinds) =>
            /\ pc \in {"dequeue", "size", "execute"}
            /\ lastStep'.wf = workflows[idx].name
            /\ IF idx < Len(workflows)
               THEN pc' = "dequeue" /\ idx' = idx + 1
               ELSE pc' = "sleep"
            /\ running' = running
            /\ workflow_executions' = workflow_executions]_vars

\* With the store unreachable for the first workflow and the second one's
\* queue-size query, construction or execution raising, the pass reached its
\* sleep with the loop still running.
C9_Witness ==
    /\ running
    /\ pc = "sleep"
    /\ Len(workflows) = 2
    /\ pass.deqRaised
    /\ pass.popped[workflows[2].name] = 1
    /\ lastStep.kind \in {"size_raise", "construct_raise", "execute_raise"}

\* C10: after stop() is called on the running loop no new pass begins and at
\* most one end-of-pass sleep completes; the stop call itself changes nothing
\* of the loop's position, data or counters; an execution in flight ends only
\* by completing; and start() eventually returns.
C10_Stop ==
    /\ [](/\ afterStop.passes = 0
          /\ afterStop.sleeps <= 1
          /\ (afterStop.at = "execute" /\ pc \in {"sleep", "done"})
                => afterStop.finished >= 1)
    /\ [][(lastStep' # lastStep /\ lastStep'.kind = "stop") =>
            /\ pc' = pc /\ idx' = idx /\ loop_data' = loop_data
            /\ workflow_executions' = workflow_executions
            /\ store' = store]_vars
    /\ [][(afterStop.called /\ pc = "execute" /\ pc' # "execute") =>
            lastStep'.kind \in {"success", "failure", "execute_raise"}]_vars
    /\ afterStop.called ~> (pc = "done")

\* stop() was called during an execution; the execution was counted, the pass
\* ended, one sleep completed and start() returned.
C10_Witness ==
    /\ pc = "done"
    /\ afterStop.called /\ afterStop.at = "execute"
    /\ afterStop.finished >= 1
    /\ afterStop.sleeps = 1
    /\ \E k \in Workflows \X Statuses : workflow_executions[k] >= 1

\* An item of the loop is in hand from the dequeue that returned it until the
\* for loop moves on.
ItemInHand == pc \in {"size", "execute"}
TotalExecutions ==
    LET RECURSIVE Sum(_)
        Sum(S) == IF S = {} THEN 0
                  ELSE LET k == CHOOSE x \in S : TRUE
                       IN workflow_executions[k] + Sum(S \ {k})
    IN Sum(Workflows \X Statuses)

\* C11 (as stated): whenever the loop is done with an item it dequeued (the
\* store answered the queue-size query), the instance was constructed, its
\* execute ran and returned a result, and the execution counter labelled with
\* the workflow's name and the result's outcome rose by one, no other counter
\* changing.
C11_Dispatch_AsStated ==
    [][(ItemInHand /\ ~ItemInHand' /\ lastStep'.kind # "size_raise") =>
            /\ pc = "execute"
            /\ lastStep'.kind \in Statuses
            /\ workflow_executions' =
                   [workflow_executions EXCEPT
                        ![<<workflows[idx].name, lastStep'.kind>>] = @ + 1]
            /\ TotalExecutions' = TotalExecutions + 1]_vars

\* ------------------------------------------------ routes and connections claims
ManagerCalled == qcalls' # qcalls
LiveHandles == {redis_connections[r] : r \in DOMAIN redis_connections} \ {NoConn}

\* C12: a connect, enqueue, dequeue or get_queue_size call whose queue name is
\* not in the route table raises ValueError and leaves the route table, the
\* handles, the number of connections opened and every list as they were.
C12_UnknownRoute ==
    [][(/\ ManagerCalled
        /\ ret'.op \in {"connect", "enqueue", "dequeue", "get_queue_size"}
        /\ ret'.route \notin DOMAIN redis_configs) =>
            /\ ret'.raised = "ValueError"
            /\ redis_configs' = redis_configs
            /\ redis_connections' = redis_connections
            /\ nextConn' = nextConn
            /\ store' = store]_vars

\* With a live connection and a record in the default route's list, an enqueue
\* on a queue name that is not configured was refused.
C12_Witness ==
    /\ ret.op = "enqueue" /\ ret.route = "unlisted" /\ ret.raised = "ValueError"
    /\ redis_connections["default"] # NoConn
    /\ store[<<"t0", "A">>] # << >>
    /\ DOMAIN redis_configs = {"default"}

\* C13: a new manager has no handle and has opened nothing; a connect or queue
\* call on a configured route without a handle opens at most one connection,
\* and exactly one, stored as that route's handle and new to the manager, when
\* the call returns; a call on a route that has a handle opens nothing and
\* leaves every handle as it was; other routes' handles are never touched.
C13_LazyConnect ==
    /\ [](ret.op = "init" =>
            /\ nextConn = 1
            /\ \A r \in DOMAIN redis_connections : redis_connections[r] = NoConn)
    /\ [][(/\ ManagerCalled
            /\ ret'.op \in {"connect", "enqueue", "dequeue", "get_queue_size"}
            /\ ret'.route \in DOMAIN redis_configs) =>
              LET r == ret'.route IN
              /\ \A o \in DOMAIN redis_connections \ {r} :
                    redis_connections'[o] = redis_connections[o]
              /\ IF redis_connections[r] # NoConn
                 THEN nextConn' = nextConn /\ redis_connections'[r] = redis_connections[r]
                 ELSE /\ nextConn' \in {nextConn, nextConn + 1}
                      /\ ret'.raised = "" => nextConn' = nextConn + 1
                      /\ IF nextConn' = nextConn
                         THEN redis_connections'[r] = NoConn
                         ELSE /\ redis_connections'[r] = nextConn
                              /\ nextConn \notin LiveHandles \cup closed]_vars

\* The default route was connected by the first enqueue; a second enqueue and
\* a size query went through the same handle, the only one ever opened.
C13_Witness ==
    /\ ret.op = "get_queue_size" /\ ret.route = "default" /\ ret.raised = ""
    /\ ret.n = 2
    /\ redis_connections["default"] = 1
    /\ used = 1
    /\ nextConn = 2

\* C14: a disconnect of a configured route that has no handle, and a
\* disconnect_all when no route has a handle, return without raising and leave
\* the route table, the handles, the lists and the connections opened and
\* closed so far as they were.
C14_IdempotentDisconnect ==
    [][(/\ ManagerCalled
        /\ \/ /\ ret'.op = "disconnect"
              /\ ret'.route \in DOMAIN redis_configs
              /\ redis_connections[ret'.route] = NoConn
           \/ /\ ret'.op = "disconnect_all"
              /\ LiveHandles = {}) =>
            /\ ret'.raised = ""
            /\ redis_configs' = redis_configs
            /\ redis_connections' = redis_connections
            /\ max_queue_length' = max_queue_length
            /\ nextConn' = nextConn
            /\ store' = store
            /\ closed' = closed]_vars

\* The default route is connected and holds a record; disconnect was called on
\* the other configured route, which never had a connection, and returned.
C14_Witness ==
    /\ ret.op = "disconnect" /\ ret.route = "high_priority" /\ ret.raised = ""
    /\ "high_priority" \in DOMAIN redis_configs
    /\ redis_connections["high_priority"] = NoConn
    /\ redis_connections["default"] = 1
    /\ nextConn = 2
    /\ closed = {}
    /\ store[<<"t0", "A">>] # << >>

\* C15: when disconnect of a configured route returns, the route has no
\* handle; a queue operation on a route without a handle that reaches the
\* store does so on a connection opened by that very call; and no store
\* operation ever runs on a handle that was closed.
C15_Reconnect ==
    /\ [](used \notin closed)
    /\ [][(/\ ManagerCalled
            /\ ret'.op = "disconnect"
            /\ ret'.raised = ""
            /\ ret'.route \in DOMAIN redis_configs) =>
              /\ redis_connections'[ret'.route] = NoConn
              /\ redis_connections[ret'.route] # NoConn =>
                    redis_connections[ret'.route] \in closed']_vars
    /\ [][(/\ ManagerCalled
            /\ ret'.op \in {"enqueue", "dequeue", "get_queue_size"}
            /\ ret'.route \in DOMAIN redis_configs
            /\ redis_connections[ret'.route] = NoConn
            /\ used' # NoConn) =>
              /\ used' = nextConn
              /\ nextConn' = nextConn + 1
              /\ redis_connections'[ret'.route] = used'
              /\ used' \notin closed]_vars

\* A record was enqueued through connection 1, the route was disconnected, and
\* the dequeue that followed fetched the record through connection 2.
C15_Witness ==
    /\ ret.op = "dequeue" /\ ret.route = "default" /\ ret.raised = ""
    /\ ret.item # NoneItem
    /\ closed = {1}
    /\ used = 2
    /\ redis_connections["default"] = 2

\* ------------------------------------------------------ validate hook claim
\* C16 (as stated): whenever the process step has been attempted in an execute
\* call, the validate hook was consulted for the call's data and accepted it.
C16_ValidateFirst_AsStated ==
    \A c \in Callers :
        call[c].attempts >= 1 => (validation[c].consulted /\ validation[c].valid)

\* ------------------------------------------------ concurrent producers claim
InFlight == {p \in Producers : producers[p].pc # "idle"}
Untrimmed == {p \in Producers : producers[p].appended /\ ~producers[p].trimmed
                                 /\ producers[p].pc # "idle"}

\* C17: with enqueue calls interleaving at their store commands (the store
\* answering each), an enqueue returns only after its own append and, later,
\* its own trim of the list; with no enqueue in flight the list holds at most
\* max_queue_length records; and at any moment it holds at most
\* max_queue_length plus the number of enqueues that appended and have not
\* trimmed yet.
C17_ConcurrentBound ==
    /\ [](/\ InFlight = {} => Len(store[QList]) <= max_queue_length
          /\ Len(store[QList]) <= max_queue_length + Cardinality(Untrimmed))
    /\ [][\A p \in Producers :
            (producers[p].pc # "idle" /\ producers'[p].pc = "idle") =>
                /\ producers[p].appended /\ producers[p].trimmed
                /\ ret'.op = "enqueue" /\ ret'.raised = ""]_vars
    /\ [][\A p \in Producers :
            (~producers[p].trimmed /\ producers'[p].trimmed) =>
                /\ producers[p].appended
                /\ Len(store'[QList]) <= max_queue_length]_vars

\* Three producers have appended to a list bounded at one record and none has
\* trimmed yet: the list momentarily holds three records.
C17_Witness ==
    /\ max_queue_length = 1
    /\ Cardinality(Untrimmed) = 3
    /\ Len(store[QList]) = 3

\* ------------------------------------------------------- record round trip claim
\* The enqueue call whose record is at the head of the list: the resident
\* records are the last ones appended.
HeadEnqueue == Len(enqLog[QList]) - Len(store[QList]) + 1

FirstNames(log) ==
    LET RECURSIVE First(_)
        First(n) == IF n = 0 THEN << >>
                    ELSE LET before == First(n - 1)
                         IN IF \E i \in 1..Len(before) : before[i] = log[n].name
                            THEN before
                            ELSE Append(before, log[n].name)
    IN First(Len(log))

\* The implementation passed by the last call that registered the name.
LastImpl(log, name) ==
    log[CHOOSE i \in 1..Len(log) :
            /\ log[i].name = name
            /\ \A j \in (i + 1)..Len(log) : log[j].name # name].impl

\* C19: the registry's names are the distinct names of the registration calls
\* made so far, each once, in the order of their first registration; each
\* name is mapped to the implementation registered last under it; and a pass
\* of the loop visits the names in exactly that order.
C19_Registry ==
    /\ Names(workflows) = FirstNames(regLog)
    /\ \A i \in 1..Len(workflows) :
          workflows[i].impl = LastImpl(regLog, workflows[i].name)
    /\ pc = "dequeue" => pass.visited = SubSeq(FirstNames(regLog), 1, idx - 1)
    /\ pc = "sleep" => pass.visited = FirstNames(regLog)

\* A was registered, then B, then A again with another implementation: the
\* pass visited A before B, and A is mapped to the implementation given last.
C19_Witness ==
    /\ Len(regLog) = 3
    /\ Names(regLog) = <<"A", "B", "A">>
    /\ regLog[1].impl = "base_init" /\ regLog[3].impl = "own"
    /\ pc = "sleep"
    /\ pass.visited = <<"A", "B">>
    /\ workflows[1] = [name |-> "A", impl |-> "own"]

\* ------------------------------------------------------ execution time claim
\* C20 (as stated): the execution_time of the result an execute call returns
\* is the clock time that passed between that call and the moment the result
\* was produced.
C20_ExecutionTime_AsStated ==
    [][\A c \in Callers :
        (call[c].pc = "process" /\ call'[c].pc = "returned") =>
            call'[c].result.execution_time = now - calledAt[c]]_vars

\* ------------------------------------------------------ all queue sizes claim
\* C21: a get_all_queue_sizes call that returns gives a map whose keys are
\* exactly the routes of the route table, each mapped to the length of the
\* workflow's list in that route's store; the call, returning or raising,
\* leaves every list and the route table as they were.
C21_AllQueueSizes ==
    [][(ManagerCalled /\ ret'.op = "get_all_queue_sizes") =>
            /\ store' = store
            /\ redis_configs' = redis_configs
            /\ ret'.raised = "" =>
                  /\ DOMAIN ret'.sizes = DOMAIN redis_configs
                  /\ \A r \in DOMAIN redis_configs :
                        ret'.sizes[r] = Len(store[<<redis_configs[r], ret'.wf>>])]_vars

\* Two records wait on the default route and one on the other route; the
\* call reported 2 and 1.
C21_Witness ==
    /\ ret.op = "get_all_queue_sizes" /\ ret.raised = ""
    /\ DOMAIN redis_configs = Routes
    /\ ret.sizes["default"] = 2 /\ ret.sizes["high_priority"] = 1
    /\ Len(store[<<"t0", "A">>]) = 2 /\ Len(store[<<"t1", "A">>]) = 1

\* --------------------------------------------------------- ingestion claims
\* C22: on the WebSocket stream the enqueue calls are, in order, the messages
\* received, each once and for the stream's workflow (the last message may
\* still be on its way to the call); an acknowledgement is sent only for a
\* message whose enqueue has returned; once receive, enqueue or send has
\* raised, no further enqueue call is made for the stream, and the stream is
\* closed.
C22_Stream ==
    /\ [](/\ Len(stream.enqueued) <= Len(stream.received)
          /\ Len(stream.received) <= Len(stream.enqueued) + 1
          /\ (Len(stream.received) = Len(stream.enqueued) + 1) =>
                 (stream.pc = "enqueue" /\ ~stream.failed)
          /\ \A i \in 1..Len(stream.enqueued) :
                stream.enqueued[i] = <<stream.workflow_name, stream.received[i]>>
          /\ stream.acked <= stream.returned
          /\ stream.returned <= Len(stream.enqueued))
    /\ [][/\ stream'.acked # stream.acked =>
               (stream'.acked = stream.acked + 1 /\ stream.returned = stream'.acked)
          /\ stream.failed =>
               (stream'.enqueued = stream.enqueued /\ stream'.received = stream.received
                /\ stream'.acked = stream.acked)]_vars
    /\ (stream.failed ~> ~stream.open)

\* The second message's enqueue raised after the first was acknowledged; the
\* stream is closed.
C22_Witness ==
    /\ stream.pc = "closed" /\ ~stream.open /\ stream.failed
    /\ stream.received = <<"d1", "d2">>
    /\ stream.enqueued = <<<<"A", "d1">>, <<"A", "d2">>>>
    /\ stream.returned = 1 /\ stream.acked = 1

\* C23: a webhook request is answered with the success acknowledgement, and
\* the answer stands whatever its enqueue does; an acknowledged request gets
\* its enqueue call, exactly one, for the workflow of the request path, with
\* the data of the body, on the default route.
C23_Webhook ==
    /\ [](\A r \in Requests :
            /\ webhooks[r].pc # "idle" => webhooks[r].response = SuccessResponse
            /\ webhooks[r].pc # "done" => webhooks[r].calls = << >>
            /\ webhooks[r].pc = "done" =>
                  /\ Len(webhooks[r].calls) = 1
                  /\ webhooks[r].calls[1].workflow_name = webhooks[r].path
                  /\ webhooks[r].calls[1].data = webhooks[r].payload.data
                  /\ webhooks[r].calls[1].queue_name = "default")
    /\ \A r \in Requests : (webhooks[r].pc = "acked" ~> webhooks[r].pc = "done")

\* A request to /webhook/A whose body names workflow B was acknowledged and
\* its enqueue, for A, raised; another request's record is in A's queue.
C23_Witness ==
    /\ webhooks["req1"].pc = "done"
    /\ webhooks["req1"].path = "A" /\ webhooks["req1"].payload.workflow_name = "B"
    /\ webhooks["req1"].response = SuccessResponse
    /\ webhooks["req1"].calls[1].raised = "ConnectionError"
    /\ webhooks["req2"].pc = "done" /\ webhooks["req2"].calls[1].raised = ""
    /\ Len(store[<<"t0", "A">>]) = 1

\* --------------------------------------------------------- starvation claim
\* C24: at the sleep that ends a pass of the running loop every registered
\* workflow has been polled exactly once in the pass, whatever raised for the
\* other workflows (dequeue, queue-size query, construction, execution); and
\* every registered workflow whose queue held a record when the pass began
\* and whose own dequeue did not raise has had one record dequeued.
Polls(w) == Cardinality({i \in 1..Len(pass.visited) : pass.visited[i] = w})

C24_NoStarvation ==
    pc = "sleep" =>
        \A i \in 1..Len(workflows) :
            LET w == workflows[i].name IN
            /\ Polls(w) = 1
            /\ (w \in pass.held /\ pass.failed[w] # "dequeue_raise") =>
                   pass.popped[w] = 1

\* A is registered before B and both queues held a record when the pass
\* began; A's execution raised, and B's record was still dequeued and executed
\* in the same pass.
C24_Witness ==
    /\ pc = "sleep" /\ running
    /\ Names(workflows) = <<"A", "B">>
    /\ pass.held = {"A", "B"}
    /\ pass.failed["A"] = "execute_raise"
    /\ pass.failed["B"] = NoneStr
    /\ pass.popped["B"] = 1
    /\ workflow_executions[<<"B", "success">>] = 1

\* ------------------------------------------------- concurrent connect claim
\* The connections opened so far, and those of them that are neither closed
\* nor held as the handle of a route.
Opened == 1..(nextConn - 1)
Leaked == {c \in Opened : c \notin closed
                          /\ \A r \in DOMAIN redis_connections : redis_connections[r] # c}

\* C25 (as stated): once the enqueue calls that made the first use of the
\* unconnected default route have returned, the manager has opened exactly
\* one connection for the route and every opened connection is the handle of
\* a route.
C25_OneConnection_AsStated ==
    (InFlight = {} /\ redis_connections["default"] # NoConn) =>
        /\ Cardinality(Opened) = 1
        /\ Leaked = {}

\* --------------------------------------------------- disconnect race claim
\* The step in which task p sends a store command, or tries to: RPUSH when
\* its connect has returned, LTRIM and LLEN when the command before was
\* answered.
StoreCallBy(p) ==
    \/ producers[p].pc \in {"idle", "from_url"} /\ producers'[p].pc = "rpush"
    \/ producers[p].pc \in {"rpush", "ltrim"} /\ producers'[p] # producers[p]

\* C26 (as stated): with disconnect interleaving with enqueue calls on the
\* same route, every store call of an enqueue is made on a handle that is
\* set and on which close() has not been called, and no enqueue ends with
\* the AttributeError of a call on None.
C26_DisconnectRace_AsStated ==
    [][\A p \in RaceTasks :
          StoreCallBy(p) =>
              /\ redis_connections'["default"] # NoConn
              /\ redis_connections'["default"] \notin closed'
              /\ ret'.raised # "AttributeError"]_vars

\* --------------------------------------------------- scoped teardown claim
\* C27: a disconnect of a configured route leaves that route without a
\* handle, closes the connection it had and no other, and leaves the handles
\* of the other routes, the route table and every list as they were; when
\* disconnect_all returns, every connection that was a handle has been
\* closed, no route has a handle, and the lists are as they were.
C27_ScopedTeardown ==
    /\ [][(/\ ManagerCalled
            /\ ret'.op = "disconnect"
            /\ ret'.route \in DOMAIN redis_configs) =>
              /\ ret'.raised = ""
              /\ redis_connections'[ret'.route] = NoConn
              /\ closed' = closed \cup ({redis_connections[ret'.route]} \ {NoConn})
              /\ \A r \in DOMAIN redis_connections \ {ret'.route} :
                    redis_connections'[r] = redis_connections[r]
              /\ store' = store
              /\ redis_configs' = redis_configs]_vars
    /\ [][(ManagerCalled /\ ret'.op = "disconnect_all") =>
              /\ ret'.raised = ""
              /\ \A r \in DOMAIN redis_connections : redis_connections'[r] = NoConn
              /\ closed' = closed \cup LiveHandles
              /\ store' = store
              /\ redis_configs' = redis_configs]_vars

\* Both routes were connected and a record waits on each; disconnect of the
\* default route closed connection 1 and left connection 2 and both records.
C27_Witness ==
    /\ ret.op = "disconnect" /\ ret.route = "default" /\ ret.raised = ""
    /\ DOMAIN redis_configs = Routes
    /\ redis_connections["default"] = NoConn
    /\ redis_connections["high_priority"] = 2
    /\ closed = {1}
    /\ store[<<"t0", "A">>] # << >> /\ store[<<"t1", "A">>] # << >>

\* --------------------------------------------------------- zero bound claim
\* C28 (as stated): with max_queue_length = 0, the list is empty whenever an
\* enqueue has just returned.
C28_ZeroBound_AsStated ==
    (max_queue_length = 0 /\ ret.op = "enqueue" /\ ret.raised = "") =>
        Len(store[QList]) <= max_queue_length

\* ------------------------------------------------------- retry budget claim
\* C29: on one instance, whatever the sequence or overlap of its execute
\* calls, retry_count is 0 before the first call, changes only by growing by
\* one, never exceeds max_retries, and the process invocations made so far
\* number at most the execute calls made plus max_retries; an execute call
\* that began with the budget used up ends after exactly one attempt.
C29_RetryBudget ==
    /\ [](/\ retry_count >= 0 /\ retry_count <= max_retries
          /\ ncalls = 0 => retry_count = 0
          /\ invocations <= ncalls + max_retries)
    /\ [][retry_count' = retry_count \/ retry_count' = retry_count + 1]_vars
    /\ [][\A c \in Callers :
            (Active(c) /\ ~Active(c)' /\ call[c].rc0 = max_retries) =>
                call'[c].attempts = 1]_vars

\* With max_retries = 2 the first call failed three times and used the whole
\* budget; the second call, on the same instance, failed once and returned:
\* four invocations for two calls.
C29_Witness ==
    /\ max_retries = 2 /\ retry_count = 2
    /\ ncalls = 2 /\ invocations = 4
    /\ \E c \in Callers :
          /\ call[c].no = 2 /\ call[c].rc0 = 2
          /\ call[c].pc = "returned" /\ call[c].attempts = 1
          /\ ~call[c].result.success

\* ------------------------------------------------------------ delivery claim
\* s can be obtained from t by leaving elements out.
RECURSIVE IsSubSeq(_, _)
IsSubSeq(s, t) ==
    IF s = << >> THEN TRUE
    ELSE IF t = << >> THEN FALSE
    ELSE IF Head(s) = Head(t) THEN IsSubSeq(Tail(s), Tail(t))
    ELSE IsSubSeq(s, Tail(t))

\* The records as a dequeue reports them.
Loads(list) == [i \in 1..Len(list) |-> JsonLoads(list[i])]
Stored(log) == [i \in 1..Len(log) |-> JsonLoads(JsonDumps(log[i]))]
Delivered == deqLog[QList]

\* C30: with enqueues interleaving at their store commands and the dispatch
\* loop consuming, the records dequeued so far followed by the records still
\* in the list are, in order, appended records, each append accounting for
\* at most one of them (so every returned record was appended once before,
\* and none is returned twice); a dequeue that returns a record removes it
\* from the list; and no step of the loop, whatever the execution does, adds
\* a record to the list.
C30_AtMostOnce ==
    /\ [](IsSubSeq(Delivered \o Loads(store[QList]), Stored(enqLog[QList])))
    /\ [][(ProcessorStepped /\ lastStep'.kind = "dequeued") =>
            /\ deqLog'[QList] = Append(deqLog[QList], ret'.item)
            /\ store[QList] # << >>
            /\ ret'.item = JsonLoads(Head(store[QList]))
            /\ store'[QList] = Tail(store[QList])]_vars
    /\ [][ProcessorStepped => Len(store'[QList]) <= Len(store[QList])]_vars

\* d1 and d2 were appended by overlapping enqueues; the loop dequeued d1, its
\* execution raised, and the next pass dequeued d2: d1 is in neither the
\* list nor the second dequeue.
C30_Witness ==
    /\ Len(enqLog[QList]) = 2
    /\ enqLog[QList][1].data = "d1" /\ enqLog[QList][2].data = "d2"
    /\ Len(Delivered) = 2
    /\ Delivered[1].data = "d1" /\ Delivered[2].data = "d2"
    /\ store[QList] = << >>
    /\ max_queue_length = 1
    /\ pc = "execute"
    /\ TotalExecutions = 0

\* -------------------------------------------------------- loop route claim
\* C31: every dequeue of the loop names the default route and the registered
\* workflow at the for loop's position; no step of the loop changes a list
\* of the other route's target, and the record the loop holds was never
\* enqueued on the other route; on a manager without a default route every
\* poll raises ValueError, which is caught (the pass moves on, start() does
\* not end, the running flag stays).
C31_DefaultRouteOnly ==
    /\ [](loop_data # NoneItem => loop_data.queue = "default")
    /\ [][ProcessorStepped =>
            \A w \in Workflows : store'[<<"t1", w>>] = store[<<"t1", w>>]]_vars
    /\ [][(ProcessorStepped /\ pc = "dequeue") =>
            /\ ret'.op = "dequeue" /\ ret'.route = "default"
            /\ ret'.wf = workflows[idx].name
            /\ "default" \notin DOMAIN redis_configs =>
                  /\ ret'.raised = "ValueError"
                  /\ lastStep' = Step("dequeue_raise", workflows[idx].name)
                  /\ pc' \in {"dequeue", "sleep"}
                  /\ running' = running
                  /\ store' = store]_vars

\* Both routes are configured; A's record on the high-priority route is still
\* there after the loop dequeued and executed A's record of the default route
\* and finished the pass.
C31_Witness ==
    /\ DOMAIN redis_configs = Routes
    /\ pc = "sleep" /\ running
    /\ Names(workflows) = <<"A">>
    /\ workflow_executions[<<"A", "success">>] = 1
    /\ store[<<"t0", "A">>] = << >>
    /\ Len(store[<<"t1", "A">>]) = 1

\* The manager has only the high-priority route; the loop has polled A and B,
\* both polls raised, and the loop sleeps before its next pass.
C31_WitnessNoDefault ==
    /\ DOMAIN redis_configs = {"high_priority"}
    /\ pc = "sleep" /\ running
    /\ Names(workflows) = <<"A", "B">>
    /\ lastStep = Step("dequeue_raise", "B")
    /\ ret.raised = "ValueError"
    /\ Len(store[<<"t1", "A">>]) = 1

\* ------------------------------------------------------------ list key claim
\* The list a call on a configured route works on, by the route's target.
TargetList(route, wf) == <<redis_configs[route], wf>>

\* C32: an enqueue, dequeue or size query through a route works on the list
\* of the route's target and the workflow name, whatever the route is called:
\* the enqueue appends to that list and trims it to the bound, the dequeue
\* returns and removes its head, the query reports its length, and every
\* other list is left alone; so two routes with one target share a list and
\* its bound, and routes with different targets do not.
C32_ListKey ==
    /\ [](\A l \in Lists : Len(store[l]) <= max_queue_length)
    /\ [][(/\ ManagerCalled /\ ret'.raised = ""
            /\ ret'.op \in {"enqueue", "dequeue", "get_queue_size"}) =>
            LET l == TargetList(ret'.route, ret'.wf) IN
            /\ \A o \in Lists \ {l} : store'[o] = store[o]
            /\ ret'.op = "enqueue" =>
                  /\ store'[l] # << >>
                  /\ JsonLoads(store'[l][Len(store'[l])]) = ret'.item
                  /\ ret'.item.queue = ret'.route
                  /\ ret'.n = Len(store'[l])
                  /\ Len(store'[l]) = Min(Len(store[l]) + 1, max_queue_length)
            /\ ret'.op = "dequeue" =>
                  IF store[l] = << >>
                  THEN ret'.item = NoneItem /\ store'[l] = << >>
                  ELSE ret'.item = JsonLoads(Head(store[l])) /\ store'[l] = Tail(store[l])
            /\ ret'.op = "get_queue_size" =>
                  ret'.n = Len(store[l]) /\ store'[l] = store[l]]_vars

\* Both routes lead to target t0; the record returned by a dequeue through
\* the default route was enqueued through the high-priority route.
C32_Witness ==
    /\ redis_configs = SameTarget
    /\ ret.op = "dequeue" /\ ret.route = "default" /\ ret.raised = ""
    /\ ret.item # NoneItem /\ ret.item.queue = "high_priority"

\* ------------------------------------------------------- stop signal claim
MidPass == pc \in {"dequeue", "size", "execute"}
LoopStepped == ProcessorStepped /\ lastStep'.kind \notin {"register", "start", "stop"}

\* C33: start() sets the running flag whatever it was, so after a stop()
\* issued before start() the loop runs, begins a new pass after every sleep
\* and ends only after a stop() issued since start(); and with the flag down
\* in the middle of a pass the for loop goes on as before: the loop ends only
\* from its sleep, the dequeue is still made for the workflow at the loop's
\* position, an item in hand is still executed and counted, and every
\* remaining registered workflow is reached.
C33_StopNotSticky ==
    /\ [][(pc = "idle" /\ pc' # "idle") =>
            running' /\ pc' \in {"dequeue", "sleep"} /\ ~afterStop'.called]_vars
    /\ [](pc \notin {"idle", "done"} /\ ~afterStop.called => running)
    /\ [](pc = "done" => afterStop.called)
    /\ [][(LoopStepped /\ pc = "sleep" /\ ~afterStop.called) => pc' # "done"]_vars
    /\ [][(pc # "done" /\ pc' = "done") => pc = "sleep"]_vars
    /\ [][(LoopStepped /\ MidPass /\ ~running) =>
            /\ pc = "dequeue" =>
                  /\ ret'.op = "dequeue" /\ ret'.wf = workflows[idx].name
                  /\ (ret'.raised = "" /\ ret'.item # NoneItem) => pc' = "size"
            /\ (pc = "execute" /\ lastStep'.kind \in Statuses) =>
                  workflow_executions'[<<workflows[idx].name, lastStep'.kind>>] =
                      workflow_executions[<<workflows[idx].name, lastStep'.kind>>] + 1
            /\ pc' \in {"size", "execute"} => idx' = idx
            /\ pc' \notin {"size", "execute"} =>
                  IF idx < Len(workflows)
                  THEN pc' = "dequeue" /\ idx' = idx + 1
                  ELSE pc' = "sleep"]_vars
    /\ \A i \in 1..Cardinality(Workflows) :
          (afterStop.called /\ MidPass /\ idx < i /\ i <= Len(workflows))
              ~> (pc = "dequeue" /\ idx = i /\ ~running)

\* stop() was called before start() and again while the first workflow's
\* execution was in progress; that execution and the second workflow's have
\* ended since, in the same pass.
C33_Witness ==
    /\ afterStop.early /\ afterStop.called /\ afterStop.at = "execute"
    /\ afterStop.finished = 2 /\ afterStop.sleeps = 0 /\ afterStop.passes = 0
    /\ Len(workflows) = 2
    /\ lastStep = Step("success", workflows[2].name)
    /\ TotalExecutions = 2

\* ---------------------------------------------- disconnect of an unknown route
\* C37 (as stated): a disconnect call whose queue name is not in the route
\* table raises the ValueError that connect, enqueue, dequeue and
\* get_queue_size raise for such a name, and leaves the handles and the
\* connections opened and closed so far as they were.
C37_UnknownDisconnect_AsStated ==
    [][(/\ ManagerCalled
        /\ ret'.op = "disconnect"
        /\ ret'.route \notin DOMAIN redis_configs) =>
            /\ ret'.raised = "ValueError"
            /\ redis_connections' = redis_connections
            /\ nextConn' = nextConn
            /\ closed' = closed]_vars

\* ----------------------------------------------------- example workflow claims
InExecute(i) == instances[i].pc \in ExecuteAwaits
InCleanup(i) == instances[i].pc \in CleanupAwaits
CleanupStepped(i) ==
    /\ instances'[i] # instances[i]
    /\ instances[i].pc \in CleanupAwaits \/ instances'[i].pc \in CleanupAwaits
    /\ instances'[i].pc # "raised"

\* C34 (as stated): a step of an instance's cleanup changes no other task
\* and no other instance, and when cleanup returns the instance has no
\* socket and its queue manager has no connection.
C34_ScopedCleanup_AsStated ==
    [][\A i \in Instances : CleanupStepped(i) =>
            /\ \A t \in Tasks \ {i} : tasks'[t] = tasks[t]
            /\ \A j \in Instances \ {i} : instances'[j] = instances[j]
            /\ instances'[i].last = "cleanup" =>
                  ~instances'[i].websocket /\ ~instances'[i].conns]_vars

\* C35 (as stated): a call of the streaming workflow's execute whose
\* receives and connect attempts all ended (in a message, a ping, a timeout
\* or a close; in success or failure) does not raise, and every call ends.
C35_ExecuteReturns_AsStated ==
    /\ [](\A i \in Instances :
            instances[i].kind = "binance" =>
                instances[i].raisedAt \notin {"rate_sleep", "pong", "process"})
    /\ \A i \in Instances :
          (instances[i].kind = "binance" /\ InExecute(i)) ~> ~InExecute(i)

\* C36: for Binance, weather and news instances retry_count stays 0 and a
\* call of execute makes at most one process attempt; when process ends the
\* call returns a result with success set, data set and no error, the data
\* being the map with the error entry when a step inside process failed.
C36_NoRetry ==
    /\ [](\A i \in Instances :
            instances[i].retry_count = 0 /\ instances[i].attempts <= 1)
    /\ [][\A i \in Instances :
            (instances[i].pc = "process" /\ instances'[i].pc # "process"
             /\ instances'[i].pc # "raised") =>
                /\ instances'[i].pc = "idle" /\ instances'[i].last = "execute"
                /\ instances'[i].attempts = 1
                /\ instances'[i].result.success
                /\ instances'[i].result.data \in {"processed", ErrorMap}
                /\ instances'[i].result.error = NoneStr]_vars

\* A weather instance's execute returned success with the error map as data
\* after its one process attempt failed.
C36_Witness ==
    /\ instances["w1"].kind = "weather"
    /\ instances["w1"].pc = "idle" /\ instances["w1"].last = "execute"
    /\ instances["w1"].attempts = 1 /\ instances["w1"].retry_count = 0
    /\ instances["w1"].result = example_result(TRUE, ErrorMap, NoneStr)

====
